---- MODULE Spec2Model ----
(***************************************************************************)
(* Cart-to-order workflow of the e-commerce backend: product catalog,      *)
(* per-user carts, order placement, cancellation, payment and refund.      *)
(*                                                                         *)
(* Every HTTP handler is an async function; between two awaited store      *)
(* operations other requests may run.  A request therefore occupies a      *)
(* slot, and each awaited store operation (together with the synchronous   *)
(* code that follows it up to the next await) is one atomic action.        *)
(*                                                                         *)
(* Amounts are whole currency units (PKR).  A document save writes only    *)
(* the paths the handler modified; writes that replace or reposition the   *)
(* cart's items array are guarded by the document version (__v), modelled  *)
(* by the "stale" flag of every other in-memory copy of that cart.         *)
(***************************************************************************)
EXTENDS Integers, Sequences, FiniteSets, TLC

Users == {"u1", "u2"}
Products == {"p1", "p2"}
Slots == {1, 2}

\* bounds of the model
MaxStock == 2
MaxQty == 2
MaxRequests == 3
MaxDays == 8
BulkStock == 200

\* the catalog the model starts from (whole PKR; p1 is down to its last unit)
InitPrice(p) == IF p = "p1" THEN 2500 ELSE 5010
InitQuantity(p) == IF p = "p1" THEN 1 ELSE MaxStock

VARIABLES products, carts, orders, req, last, nreq, now,
          users, auth, mails, rateLimitStore, admitted

\* the store of the rate limiters, and the times at which each limiter has let
\* each client through (a history the code does not keep)
limits == <<rateLimitStore, admitted>>

\* the accounts, the auth requests in flight, the welcome emails and the limiters:
\* what the shop's handlers leave alone
aside == <<users, auth, mails, limits>>

vars == <<products, carts, orders, req, last, nreq, now, aside>>

\* a date that is not set (deliveredAt has no default)
NoDate == -1

\* the limiters the module exports, and the client keys (req.ip) followed
Limiters == {"authRateLimit", "apiRateLimit"}
Ips == {"ip1", "ip2"}

\* emailVerificationOTP once it is set to undefined
NoOtp == "undefined"

\* an auth request slot that serves nothing
AuthIdle == [pc |-> "idle", email |-> "none", otp |-> NoOtp]

\* the quantity of a request body that gives none
NoQuantity == -1

NoOrder == [user |-> "none", items |-> <<>>, subtotal |-> 0, shippingCost |-> 0,
            tax |-> 0, total |-> 0, status |-> "none", paymentStatus |-> "none",
            paymentMethod |-> "none", paymentTransactionId |-> "null",
            orderNumber |-> 0, createdAt |-> NoDate, deliveredAt |-> NoDate,
            cancelledAt |-> NoDate, cancellationReason |-> "", notes |-> ""]

Idle == [op |-> "none", pc |-> "idle", user |-> "none", productId |-> "none",
         quantity |-> 0, orderId |-> 0, cart |-> <<>>, stale |-> FALSE,
         product |-> 0, order |-> NoOrder, i |-> 0, method |-> "none",
         transactionId |-> "null"]

\* the response sent by the step just taken, if it sent one
NoResponse == [op |-> "none", user |-> "none", orderId |-> 0, resp |-> "none",
               transactionId |-> "null", view |-> <<>>, notes |-> ""]

Response(o, u, id, response) ==
    [NoResponse EXCEPT !.op = o, !.user = u, !.orderId = id, !.resp = response]

\* a new request (or admin action) arrives; the model follows MaxRequests of them
Arrive == nreq < MaxRequests /\ nreq' = nreq + 1

\* a new request arrives and is served in slot r, the first free one
\* (slots are interchangeable)
Start(r) ==
    /\ req[r].pc = "idle"
    /\ \A s \in Slots : s < r => req[s].pc # "idle"
    /\ Arrive

\* request r sends its response and frees its slot
Finish(r, response) ==
    /\ req' = [req EXCEPT ![r] = Idle]
    /\ last' = [Response(req[r].op, req[r].user, req[r].orderId, response)
                    EXCEPT !.transactionId = req[r].transactionId]

\* request r, a read of the cart, answers success with the lines in view
FinishView(r, view) ==
    /\ req' = [req EXCEPT ![r] = Idle]
    /\ last' = [Response(req[r].op, req[r].user, 0, "ok") EXCEPT !.view = view]

\* a request that is answered by its first step
Reject(o, u, id, response) ==
    /\ req' = req
    /\ last' = Response(o, u, id, response)

\* request r goes on to its next awaited operation
Continue(r, rec) ==
    /\ req' = [req EXCEPT ![r] = rec]
    /\ last' = NoResponse

-----------------------------------------------------------------------------
\* helpers over item lists

RECURSIVE FindIndexFrom(_, _, _)
FindIndexFrom(items, p, i) ==
    IF i > Len(items) THEN 0
    ELSE IF items[i].product = p THEN i
    ELSE FindIndexFrom(items, p, i + 1)

\* items.find(item => item.product.toString() === productId.toString())
FindIndex(items, p) == FindIndexFrom(items, p, 1)

\* Document.prototype.toString() of a populated product: the document as
\* util.inspect prints it, not its _id
Inspect(p) == "{ _id: " \o p \o ", ... }"

\* items.find(item => item.product.toString() === productId.toString()) over
\* lines whose product path is populated, from line i on
RECURSIVE FindPopulated(_, _, _)
FindPopulated(items, p, i) ==
    IF i > Len(items) THEN 0
    ELSE IF Inspect(items[i].product) = p THEN i
    ELSE FindPopulated(items, p, i + 1)

\* items.filter(item => item.product.toString() !== productId.toString())
FilterOut(items, p) == SelectSeq(items, LAMBDA it : it.product # p)

RECURSIVE SumTotals(_, _)
SumTotals(lines, i) ==
    IF i > Len(lines) THEN 0 ELSE lines[i].total + SumTotals(lines, i + 1)

\* every other in-memory copy of user u's cart becomes outdated (__v moved on)
Outdate(rq, r, u) ==
    [s \in Slots |->
        IF s # r /\ rq[s].user = u /\ rq[s].pc \in {"atc_save", "uci_product",
               "uci_save", "co_number", "co_insert", "co_dec", "co_clear",
               "rm_save", "cl_save", "gc_populate", "gc_save"}
        THEN [rq[s] EXCEPT !.stale = TRUE]
        ELSE rq[s]]

\* request r answers after a write that moved the version of u's cart
FinishOutdating(r, u, response) ==
    /\ req' = [Outdate(req, r, u) EXCEPT ![r] = Idle]
    /\ last' = [Response(req[r].op, req[r].user, req[r].orderId, response)
                    EXCEPT !.transactionId = req[r].transactionId]

-----------------------------------------------------------------------------
\* admin moderation of the catalog: Product.findByIdAndUpdate(id, {status})

revokeProduct(p) ==
    /\ Arrive
    /\ products' = [products EXCEPT ![p].status = "revoked"]
    /\ last' = NoResponse
    /\ UNCHANGED <<carts, orders, req, now, aside>>

reactivateProduct(p) ==
    /\ Arrive
    /\ products' = [products EXCEPT ![p].status = "active"]
    /\ last' = NoResponse
    /\ UNCHANGED <<carts, orders, req, now, aside>>

\* admin edit of a product: Product.findByIdAndUpdate(id, {price, quantity, ...},
\* {runValidators: true}); a price or quantity that is not given (price 0 counts
\* as not given) is left as it is
updateProduct(p, price, quantity) ==
    /\ Arrive
    /\ products' = [products EXCEPT
                       ![p].price = IF price # 0 THEN price ELSE @,
                       ![p].quantity = IF quantity # NoQuantity THEN quantity ELSE @]
    /\ last' = NoResponse
    /\ UNCHANGED <<carts, orders, req, now, aside>>

-----------------------------------------------------------------------------
\* addToCart

\* the range check of the requested quantity, then
\* Product.findOne({_id, status: 'active', quantity: {$gt: 0}})
addToCartProduct(r, u, p, q) ==
    /\ Start(r)
    /\ IF q < 1 \/ q > 100
       THEN Reject("addToCart", u, 0, "ValidationError")
       ELSE IF products[p].status = "active" /\ products[p].quantity > 0
       THEN Continue(r, [Idle EXCEPT !.op = "addToCart", !.user = u,
                            !.productId = p, !.quantity = q,
                            !.product = products[p].quantity, !.pc = "atc_cart"])
       ELSE Reject("addToCart", u, 0, "NotFound")
    /\ UNCHANGED <<products, carts, orders, now, aside>>

\* the stock check of addToCart once the cart document is in memory, its
\* items.product populated by getOrCreate
addToCartCheck(r, items) ==
    LET k == FindPopulated(items, req[r].productId, 1)
        currentQuantity == IF k = 0 THEN 0 ELSE items[k].quantity
        newTotalQuantity == currentQuantity + req[r].quantity
    IN IF newTotalQuantity > req[r].product
       THEN Finish(r, "OutOfStock")
       ELSE Continue(r, [req[r] EXCEPT !.cart = items, !.stale = FALSE,
                                       !.pc = "atc_save"])

\* Cart.getOrCreate: findOne({user}).populate('items.product'); a missing cart is
\* created in a later step
addToCartCart(r) ==
    /\ req[r].pc = "atc_cart"
    /\ IF carts[req[r].user].exists
       THEN addToCartCheck(r, carts[req[r].user].items)
       ELSE Continue(r, [req[r] EXCEPT !.pc = "atc_create"])
    /\ UNCHANGED <<products, carts, orders, nreq, now, aside>>

\* variant of the index on user that is not unique
cartTakenNever(cs, u) == FALSE

\* user: {unique: true}: the insert of a second cart of user u is refused
cartTaken(cs, u) == cs[u].exists

\* Cart.getOrCreate: new Cart({user, items: []}).save(); user is a unique index
addToCartCreate(r) ==
    /\ req[r].pc = "atc_create"
    /\ IF cartTaken(carts, req[r].user)
       THEN /\ Finish(r, "DuplicateKey")
            /\ UNCHANGED carts
       ELSE /\ carts' = [carts EXCEPT ![req[r].user] = [exists |-> TRUE, items |-> <<>>]]
            /\ addToCartCheck(r, <<>>)
    /\ UNCHANGED <<products, orders, nreq, now, aside>>

\* cart.addItem(productId, quantity) on that populated document, and its save
addToCartSave(r) ==
    /\ req[r].pc = "atc_save"
    /\ LET u == req[r].user
           k == FindPopulated(req[r].cart, req[r].productId, 1)
       IN IF k # 0
          THEN \* existingItem.quantity += quantity : $set items.k.quantity
               LET nq == req[r].cart[k].quantity + req[r].quantity
               IN IF nq > 100
                  THEN /\ Finish(r, "ValidationError")
                       /\ UNCHANGED carts
                  ELSE IF req[r].stale
                  THEN /\ Finish(r, "VersionError")
                       /\ UNCHANGED carts
                  ELSE /\ carts' = [carts EXCEPT ![u].items[k].quantity = nq]
                       /\ Finish(r, "ok")
          ELSE \* this.items.push({product, quantity}) : $push, __v incremented
               /\ carts' = [carts EXCEPT ![u].items =
                               Append(@, [product |-> req[r].productId,
                                          quantity |-> req[r].quantity])]
               /\ FinishOutdating(r, u, "ok")
    /\ UNCHANGED <<products, orders, nreq, now, aside>>

-----------------------------------------------------------------------------
\* createOrder

\* populate('items.product') of the loaded cart
Populate(items) ==
    [i \in DOMAIN items |-> [product |-> items[i].product,
                             quantity |-> items[i].quantity,
                             doc |-> products[items[i].product]]]

\* variant of the availability check that looks at the status only
unavailableProductsStatusOnly(pop) ==
    {i \in DOMAIN pop : pop[i].doc.status # "active"}

\* the lines createOrder reports as no longer available
unavailableProducts(pop) ==
    {i \in DOMAIN pop : \/ pop[i].doc.status # "active"
                        \/ pop[i].doc.quantity < pop[i].quantity}

\* items: cart.items.map(item => ({product, quantity, price, total}))
OrderItems(pop) ==
    [i \in DOMAIN pop |-> [product |-> pop[i].product,
                           quantity |-> pop[i].quantity,
                           price |-> pop[i].doc.price,
                           total |-> pop[i].doc.price * pop[i].quantity]]

\* variant of the shipping rule that is free from 5000 on
ShippingCostFrom5000(subtotal) == IF subtotal >= 5000 THEN 0 ELSE 200

\* subtotal > 5000 ? 0 : 200
ShippingCost(subtotal) == IF subtotal > 5000 THEN 0 ELSE 200

\* Math.round(subtotal * 0.05), a half rounds up
Tax(subtotal) == (subtotal + 10) \div 20

\* total = subtotal + shippingCost + tax
Total(subtotal, shippingCost, tax) == subtotal + shippingCost + tax

\* new Order({...}) as built by createOrder
NewOrder(u, pop, paymentMethod) ==
    LET lines == OrderItems(pop)
        subtotal == SumTotals(lines, 1)
    IN [NoOrder EXCEPT !.user = u, !.items = lines, !.subtotal = subtotal,
            !.shippingCost = ShippingCost(subtotal), !.tax = Tax(subtotal),
            !.total = Total(subtotal, ShippingCost(subtotal), Tax(subtotal)),
            !.status = "pending", !.paymentStatus = "pending",
            !.paymentMethod = paymentMethod]

\* variant of the empty-cart check that only looks for a missing cart
cartIsEmptyMissingOnly(cart) == ~cart.exists

\* !cart || cart.items.length === 0
cartIsEmpty(cart) == ~cart.exists \/ Len(cart.items) = 0

\* address validation, Cart.findOne(...).populate(...), availability check, totals
createOrderFind(r, u, addressOk, paymentMethod) ==
    /\ Start(r)
    /\ IF ~addressOk
       THEN Reject("createOrder", u, 0, "ValidationError")
       ELSE IF cartIsEmpty(carts[u])
       THEN Reject("createOrder", u, 0, "EmptyCart")
       ELSE LET pop == Populate(carts[u].items)
            IN IF unavailableProducts(pop) # {}
               THEN Reject("createOrder", u, 0, "Unavailable")
               ELSE Continue(r, [Idle EXCEPT !.op = "createOrder",
                                    !.user = u, !.cart = carts[u].items,
                                    !.order = NewOrder(u, pop, paymentMethod),
                                    !.pc = "co_number"])
    /\ UNCHANGED <<products, carts, orders, now, aside>>

\* OrderSchema.statics.generateOrderNumber: highest sequence of the day + 1
RECURSIVE MaxOrderNumberFrom(_, _)
MaxOrderNumberFrom(os, i) ==
    IF i > Len(os) THEN 0
    ELSE LET m == MaxOrderNumberFrom(os, i + 1)
         IN IF os[i].orderNumber > m THEN os[i].orderNumber ELSE m

generateOrderNumber(os) == MaxOrderNumberFrom(os, 1) + 1

\* variant of the hook that numbers the order again at every save
orderNumberOnSaveAlways(o, isNew, os) == generateOrderNumber(os)

\* first pre('save') hook: if (this.isNew && !this.orderNumber) the order is
\* numbered; the number of the document once the hook has run
orderNumberOnSave(o, isNew, os) ==
    IF isNew /\ o.orderNumber = 0 THEN generateOrderNumber(os) ELSE o.orderNumber

Abs(x) == IF x < 0 THEN -x ELSE x

\* variant of the total validation without Math.abs
TotalMatchesNoAbs(o) ==
    LET calculatedTotal == o.subtotal + o.shippingCost + o.tax
    IN ~((calculatedTotal - o.total) * 100 > 1)

\* pre('save') total validation: Math.abs(calculatedTotal - this.total) > 0.01 rejects
TotalMatches(o) ==
    LET calculatedTotal == o.subtotal + o.shippingCost + o.tax
    IN ~(Abs(calculatedTotal - o.total) * 100 > 1)

\* order.save(), first pre('save') hook of a new document
createOrderNumber(r) ==
    /\ req[r].pc = "co_number"
    /\ Continue(r, [req[r] EXCEPT !.order.orderNumber =
                                      orderNumberOnSave(req[r].order, TRUE, orders),
                                  !.pc = "co_insert"])
    /\ UNCHANGED <<products, carts, orders, nreq, now, aside>>

\* variant of the order-number index that is not unique
orderNumberTakenNever(os, n) == FALSE

\* orderNumber: {unique: true}: an insert of a number some order holds is refused
orderNumberTaken(os, n) == \E k \in DOMAIN os : os[k].orderNumber = n

\* order.save(): second pre('save') hook, then the insert (orderNumber is unique)
createOrderInsert(r) ==
    /\ req[r].pc = "co_insert"
    /\ IF ~TotalMatches(req[r].order)
       THEN /\ Finish(r, "TotalMismatch")
            /\ UNCHANGED orders
       ELSE IF orderNumberTaken(orders, req[r].order.orderNumber)
       THEN /\ Finish(r, "DuplicateKey")
            /\ UNCHANGED orders
       ELSE /\ orders' = Append(orders, [req[r].order EXCEPT !.createdAt = now])
            /\ Continue(r, [req[r] EXCEPT !.orderId = Len(orders) + 1,
                                          !.order = NoOrder,
                                          !.i = 1, !.pc = "co_dec"])
    /\ UNCHANGED <<products, carts, nreq, now, aside>>

\* variant of the decrement that takes one unit whatever the line's quantity
DecQuantityByOne(prods, item) ==
    [prods EXCEPT ![item.product].quantity = @ - 1]

\* Product.findByIdAndUpdate(id, {$inc: {quantity: -item.quantity}})
DecQuantity(prods, item) ==
    [prods EXCEPT ![item.product].quantity = @ - item.quantity]

\* one pass of the loop that reduces product quantities
createOrderDec(r) ==
    /\ req[r].pc = "co_dec"
    /\ products' = DecQuantity(products, req[r].cart[req[r].i])
    /\ Continue(r, [req[r] EXCEPT !.i = @ + 1,
                                  !.pc = IF req[r].i = Len(req[r].cart)
                                         THEN "co_clear" ELSE "co_dec"])
    /\ UNCHANGED <<carts, orders, nreq, now, aside>>

\* cart.items = []; cart.save() : $set of the whole array, guarded by __v
createOrderClear(r) ==
    /\ req[r].pc = "co_clear"
    /\ IF req[r].stale
       THEN /\ Finish(r, "VersionError")
            /\ UNCHANGED carts
       ELSE /\ carts' = [carts EXCEPT ![req[r].user].items = <<>>]
            /\ FinishOutdating(r, req[r].user, "ok")
    /\ UNCHANGED <<products, orders, nreq, now, aside>>

\* the awaited Product.findByIdAndUpdate rejects (the store is unreachable): the
\* error goes to catchAsync's handler, which answers 500; nothing is undone
createOrderDecFails(r) ==
    /\ req[r].pc = "co_dec"
    /\ Finish(r, "StoreError")
    /\ UNCHANGED <<products, carts, orders, nreq, now, aside>>

-----------------------------------------------------------------------------
\* updateCartItem

\* quantity range check and Cart.findOne({user})
updateCartItemCart(r, u, p, q) ==
    /\ Start(r)
    /\ IF q < 0 \/ q > 100
       THEN Reject("updateCartItem", u, 0, "ValidationError")
       ELSE IF ~carts[u].exists
       THEN Reject("updateCartItem", u, 0, "NotFound")
       ELSE Continue(r, [Idle EXCEPT !.op = "updateCartItem", !.user = u,
                            !.productId = p, !.quantity = q,
                            !.cart = carts[u].items,
                            !.pc = IF q > 0 THEN "uci_product" ELSE "uci_save"])
    /\ UNCHANGED <<products, carts, orders, now, aside>>

\* variant of the stock check that already refuses the whole stock
exceedsStockOrAll(quantity, product) == quantity >= product.quantity

\* quantity > product.quantity
exceedsStock(quantity, product) == quantity > product.quantity

\* Product.findOne({_id, status: 'active'}) and the stock check, when quantity > 0
updateCartItemProduct(r) ==
    /\ req[r].pc = "uci_product"
    /\ IF products[req[r].productId].status # "active"
       THEN Finish(r, "NotFound")
       ELSE IF exceedsStock(req[r].quantity, products[req[r].productId])
       THEN Finish(r, "OutOfStock")
       ELSE Continue(r, [req[r] EXCEPT !.pc = "uci_save"])
    /\ UNCHANGED <<products, carts, orders, nreq, now, aside>>

\* cart.updateItemQuantity(productId, quantity) and its save
updateCartItemSave(r) ==
    /\ req[r].pc = "uci_save"
    /\ LET u == req[r].user
           k == FindIndex(req[r].cart, req[r].productId)
       IN IF k = 0
          THEN /\ Finish(r, "ItemNotFound")
               /\ UNCHANGED carts
          ELSE IF req[r].quantity <= 0
          THEN \* removeItem: this.items = this.items.filter(...) : $set of the array
               IF req[r].stale
               THEN /\ Finish(r, "VersionError")
                    /\ UNCHANGED carts
               ELSE /\ carts' = [carts EXCEPT ![u].items =
                                    FilterOut(req[r].cart, req[r].productId)]
                    /\ FinishOutdating(r, u, "ok")
          ELSE IF req[r].quantity = req[r].cart[k].quantity
          THEN \* nothing modified, nothing written
               /\ Finish(r, "ok")
               /\ UNCHANGED carts
          ELSE IF req[r].stale
          THEN /\ Finish(r, "VersionError")
               /\ UNCHANGED carts
          ELSE \* item.quantity = quantity : $set items.k.quantity
               /\ carts' = [carts EXCEPT ![u].items[k].quantity = req[r].quantity]
               /\ Finish(r, "ok")
    /\ UNCHANGED <<products, orders, nreq, now, aside>>

-----------------------------------------------------------------------------
\* removeFromCart

\* Cart.findOne({user})
removeFromCartCart(r, u, p) ==
    /\ Start(r)
    /\ IF ~carts[u].exists
       THEN Reject("removeFromCart", u, 0, "NotFound")
       ELSE Continue(r, [Idle EXCEPT !.op = "removeFromCart", !.user = u,
                            !.productId = p, !.cart = carts[u].items,
                            !.pc = "rm_save"])
    /\ UNCHANGED <<products, carts, orders, now, aside>>

\* cart.removeItem(productId): this.items = this.items.filter(...) and its save;
\* an array left as it was loaded is not written
removeFromCartSave(r) ==
    /\ req[r].pc = "rm_save"
    /\ LET u == req[r].user
           kept == FilterOut(req[r].cart, req[r].productId)
       IN IF kept = req[r].cart
          THEN /\ Finish(r, "ok")
               /\ UNCHANGED carts
          ELSE IF req[r].stale
          THEN /\ Finish(r, "VersionError")
               /\ UNCHANGED carts
          ELSE /\ carts' = [carts EXCEPT ![u].items = kept]
               /\ FinishOutdating(r, u, "ok")
    /\ UNCHANGED <<products, orders, nreq, now, aside>>

-----------------------------------------------------------------------------
\* clearCart

\* Cart.findOne({user})
clearCartCart(r, u) ==
    /\ Start(r)
    /\ IF ~carts[u].exists
       THEN Reject("clearCart", u, 0, "NotFound")
       ELSE Continue(r, [Idle EXCEPT !.op = "clearCart", !.user = u,
                            !.cart = carts[u].items, !.pc = "cl_save"])
    /\ UNCHANGED <<products, carts, orders, now, aside>>

\* cart.clear(): this.items = [] and its save
clearCartSave(r) ==
    /\ req[r].pc = "cl_save"
    /\ LET u == req[r].user
       IN IF req[r].cart = <<>>
          THEN /\ Finish(r, "ok")
               /\ UNCHANGED carts
          ELSE IF req[r].stale
          THEN /\ Finish(r, "VersionError")
               /\ UNCHANGED carts
          ELSE /\ carts' = [carts EXCEPT ![u].items = <<>>]
               /\ FinishOutdating(r, u, "ok")
    /\ UNCHANGED <<products, orders, nreq, now, aside>>

-----------------------------------------------------------------------------
\* getCart

\* Cart.getOrCreate: findOne({user}).populate('items.product')
getCartCart(r, u) ==
    /\ Start(r)
    /\ Continue(r, [Idle EXCEPT !.op = "getCart", !.user = u,
                        !.cart = carts[u].items,
                        !.pc = IF carts[u].exists THEN "gc_populate" ELSE "gc_create"])
    /\ UNCHANGED <<products, carts, orders, now, aside>>

\* Cart.getOrCreate: new Cart({user, items: []}).save(); user is a unique index
getCartCreate(r) ==
    /\ req[r].pc = "gc_create"
    /\ IF cartTaken(carts, req[r].user)
       THEN /\ Finish(r, "DuplicateKey")
            /\ UNCHANGED carts
       ELSE /\ carts' = [carts EXCEPT ![req[r].user] = [exists |-> TRUE, items |-> <<>>]]
            /\ Continue(r, [req[r] EXCEPT !.cart = <<>>, !.stale = FALSE,
                                          !.pc = "gc_populate"])
    /\ UNCHANGED <<products, orders, nreq, now, aside>>

\* cart.populate({path: 'items.product', match: {status: 'active'}}) and
\* cart.items = cart.items.filter(item => item.product && ...status === 'active');
\* a cart that lost no line is not saved
getCartPopulate(r) ==
    /\ req[r].pc = "gc_populate"
    /\ LET kept == SelectSeq(req[r].cart,
                             LAMBDA it : products[it.product].status = "active")
       IN IF kept = req[r].cart
          THEN FinishView(r, kept)
          ELSE Continue(r, [req[r] EXCEPT !.cart = kept, !.pc = "gc_save"])
    /\ UNCHANGED <<products, carts, orders, nreq, now, aside>>

\* if (cart.isModified()) await cart.save() : $set of the whole array, guarded by __v
getCartSave(r) ==
    /\ req[r].pc = "gc_save"
    /\ IF req[r].stale
       THEN /\ Finish(r, "VersionError")
            /\ UNCHANGED carts
       ELSE /\ carts' = [carts EXCEPT ![req[r].user].items = req[r].cart]
            /\ req' = [Outdate(req, r, req[r].user) EXCEPT ![r] = Idle]
            /\ last' = [Response("getCart", req[r].user, 0, "ok")
                            EXCEPT !.view = req[r].cart]
    /\ UNCHANGED <<products, orders, nreq, now, aside>>

-----------------------------------------------------------------------------
\* getCartSummary

\* Cart.findOne({user}); without a cart the summary is empty
getCartSummaryCart(r, u) ==
    /\ Start(r)
    /\ IF ~carts[u].exists
       THEN Reject("getCartSummary", u, 0, "ok")
       ELSE Continue(r, [Idle EXCEPT !.op = "getCartSummary", !.user = u,
                            !.cart = carts[u].items, !.pc = "gs_populate"])
    /\ UNCHANGED <<products, carts, orders, now, aside>>

\* populate({path: 'items.product', match: {status: 'active'}}), the filter of
\* cart.items and the response; the filtered cart is not saved
getCartSummaryPopulate(r) ==
    /\ req[r].pc = "gs_populate"
    /\ FinishView(r, SelectSeq(req[r].cart,
                               LAMBDA it : products[it.product].status = "active"))
    /\ UNCHANGED <<products, carts, orders, nreq, now, aside>>

-----------------------------------------------------------------------------
\* order documents: a save writes the modified paths only

\* variant of the lookup that ignores the user
FindOrderOfAnyUser(id, u) == id \in DOMAIN orders

\* Order.findOne({_id: id, user: u})
FindOrder(id, u) == id \in DOMAIN orders /\ orders[id].user = u

\* the stored document after a save that assigned value to path f of a copy loaded as ld
SetPath(o, ld, f, value) == IF ld[f] = value THEN o ELSE [o EXCEPT ![f] = value]

\* the stored document o after the save of a copy loaded as ld has run the first
\* pre('save') hook
SaveLoaded(o, ld) == SetPath(o, ld, "orderNumber", orderNumberOnSave(ld, FALSE, orders))

-----------------------------------------------------------------------------
\* cancelOrder

\* variant of the cancellation check that also lets processing orders through
CancellableOrProcessing(status) == status \in {"pending", "confirmed", "processing"}

\* ['pending', 'confirmed'].includes(order.status)
Cancellable(status) == status \in {"pending", "confirmed"}

\* Order.findOne and the status check
cancelOrderFind(r, u, id) ==
    /\ Start(r)
    /\ IF ~FindOrder(id, u)
       THEN Reject("cancelOrder", u, id, "NotFound")
       ELSE IF ~Cancellable(orders[id].status)
       THEN Reject("cancelOrder", u, id, "CannotCancel")
       ELSE Continue(r, [Idle EXCEPT !.op = "cancelOrder", !.user = u,
                            !.orderId = id, !.order = orders[id],
                            !.i = 1, !.pc = "cn_inc"])
    /\ UNCHANGED <<products, carts, orders, now, aside>>

\* variant of the restore that returns one unit whatever the line's quantity
IncQuantityByOne(prods, item) ==
    [prods EXCEPT ![item.product].quantity = @ + 1]

\* Product.findByIdAndUpdate(item.product, {$inc: {quantity: item.quantity}})
IncQuantity(prods, item) ==
    [prods EXCEPT ![item.product].quantity = @ + item.quantity]

\* one pass of the loop that restores product quantities
cancelOrderInc(r) ==
    /\ req[r].pc = "cn_inc"
    /\ products' = IncQuantity(products, req[r].order.items[req[r].i])
    /\ Continue(r, [req[r] EXCEPT !.i = @ + 1,
                                  !.pc = IF req[r].i = Len(req[r].order.items)
                                         THEN "cn_save" ELSE "cn_inc"])
    /\ UNCHANGED <<carts, orders, nreq, now, aside>>

\* order.status = 'cancelled'; order.paymentStatus = 'refunded'; order.save()
cancelOrderSave(r) ==
    /\ req[r].pc = "cn_save"
    /\ IF ~TotalMatches(req[r].order)
       THEN /\ Finish(r, "TotalMismatch")
            /\ UNCHANGED orders
       ELSE /\ orders' = [orders EXCEPT ![req[r].orderId] =
                  SetPath(SetPath(SaveLoaded(@, req[r].order),
                                  req[r].order, "status", "cancelled"),
                          req[r].order, "paymentStatus", "refunded")]
            /\ Finish(r, "ok")
    /\ UNCHANGED <<products, carts, nreq, now, aside>>

-----------------------------------------------------------------------------
\* processPayment

PaymentMethods == {"cash_on_delivery", "credit_card", "bank_transfer", "wallet"}

\* const walletBalance = 10000
walletBalance == 10000

\* the switch over paymentMethod: paymentResult, or the error that ends the request;
\* the credit-card transactionId reads paymentResult before it is assigned
paymentResult(o, method, detailsOk, random) ==
    CASE method = "cash_on_delivery" ->
            [error |-> "none", success |-> TRUE, transactionId |-> "null"]
      [] method = "credit_card" ->
            IF ~detailsOk
            THEN [error |-> "ValidationError", success |-> FALSE, transactionId |-> "null"]
            ELSE [error |-> "none", success |-> random, transactionId |-> "null"]
      [] method = "bank_transfer" ->
            [error |-> "none", success |-> TRUE, transactionId |-> "BANK"]
      [] method = "wallet" ->
            IF walletBalance < o.total
            THEN [error |-> "InsufficientBalance", success |-> FALSE, transactionId |-> "null"]
            ELSE [error |-> "none", success |-> TRUE, transactionId |-> "WALLET"]
      [] OTHER ->
            [error |-> "InvalidMethod", success |-> FALSE, transactionId |-> "null"]

\* variant of the paid check that lets every order through
alreadyPaidNever(o) == FALSE

\* order.paymentStatus === 'paid'
alreadyPaid(o) == o.paymentStatus = "paid"

\* variant of the cancelled check that lets every order through
orderCancelledNever(o) == FALSE

\* order.status === 'cancelled'
orderCancelled(o) == o.status = "cancelled"

\* Order.findOne, the paid / cancelled checks and the simulated payment
processPaymentFind(r, u, id, method, detailsOk, random) ==
    /\ Start(r)
    /\ IF ~FindOrder(id, u)
       THEN Reject("processPayment", u, id, "NotFound")
       ELSE IF alreadyPaid(orders[id])
       THEN Reject("processPayment", u, id, "AlreadyPaid")
       ELSE IF orderCancelled(orders[id])
       THEN Reject("processPayment", u, id, "OrderCancelled")
       ELSE LET res == paymentResult(orders[id], method, detailsOk, random)
            IN IF res.error # "none"
               THEN Reject("processPayment", u, id, res.error)
               ELSE IF ~res.success
               THEN Reject("processPayment", u, id, "PaymentFailed")
               ELSE Continue(r, [Idle EXCEPT !.op = "processPayment", !.user = u,
                                    !.orderId = id, !.order = orders[id],
                                    !.method = method,
                                    !.transactionId = res.transactionId,
                                    !.pc = "pay_save"])
    /\ UNCHANGED <<products, carts, orders, now, aside>>

\* variant of the confirmation rule that confirms whatever the status
wasPendingAlways(status) == TRUE

\* if (order.status === 'pending'): the payment confirms the order
wasPending(status) == status = "pending"

\* paymentStatus = 'paid', paymentMethod, status pending -> confirmed; order.save().
\* paymentTransactionId is not a path of OrderSchema: it is returned, not stored.
processPaymentSave(r) ==
    /\ req[r].pc = "pay_save"
    /\ IF ~TotalMatches(req[r].order)
       THEN /\ Finish(r, "TotalMismatch")
            /\ UNCHANGED orders
       ELSE /\ orders' = [orders EXCEPT ![req[r].orderId] =
                  LET ld == req[r].order
                      a == SetPath(SaveLoaded(@, ld), ld, "paymentStatus", "paid")
                      b == SetPath(a, ld, "paymentMethod", req[r].method)
                  IN IF wasPending(ld.status)
                     THEN SetPath(b, ld, "status", "confirmed") ELSE b]
            /\ Finish(r, "ok")
    /\ UNCHANGED <<products, carts, nreq, now, aside>>

-----------------------------------------------------------------------------
\* processRefund

\* the refund period of a delivered order, in days
RefundDays == 7

\* variant of the deadline test that already refuses on the deadline itself
refundExpiredOnDeadline(o, today) ==
    today >= (IF o.deliveredAt # NoDate THEN o.deliveredAt ELSE o.createdAt) + RefundDays

\* new Date() > refundDeadline, the deadline being RefundDays after
\* order.deliveredAt || order.createdAt
refundExpired(o, today) ==
    today > (IF o.deliveredAt # NoDate THEN o.deliveredAt ELSE o.createdAt) + RefundDays

\* variant of the paid check that lets every order through
notPaidNever(o) == FALSE

\* order.paymentStatus !== 'paid'
notPaid(o) == o.paymentStatus # "paid"

\* Order.findOne, the paid check and the refund period of a delivered order
processRefundFind(r, u, id) ==
    /\ Start(r)
    /\ IF ~FindOrder(id, u)
       THEN Reject("processRefund", u, id, "NotFound")
       ELSE IF notPaid(orders[id])
       THEN Reject("processRefund", u, id, "NotPaid")
       ELSE IF orders[id].status = "delivered" /\ refundExpired(orders[id], now)
       THEN Reject("processRefund", u, id, "RefundExpired")
       ELSE Continue(r, [Idle EXCEPT !.op = "processRefund", !.user = u,
                            !.orderId = id, !.order = orders[id],
                            !.pc = "rf_save"])
    /\ UNCHANGED <<products, carts, orders, now, aside>>

\* paymentStatus = 'refunded'; status = 'refunded'; order.save()
processRefundSave(r) ==
    /\ req[r].pc = "rf_save"
    /\ IF ~TotalMatches(req[r].order)
       THEN /\ Finish(r, "TotalMismatch")
            /\ UNCHANGED orders
       ELSE /\ orders' = [orders EXCEPT ![req[r].orderId] =
                  SetPath(SetPath(SaveLoaded(@, req[r].order),
                                  req[r].order, "paymentStatus", "refunded"),
                          req[r].order, "status", "refunded")]
            /\ Finish(r, "ok")
    /\ UNCHANGED <<products, carts, nreq, now, aside>>

-----------------------------------------------------------------------------
\* new Order(doc).save() for an arbitrary document: the two pre('save') hooks and
\* the insert, as every caller of the Order model goes through them

\* a one-line order of 2 x 500 whose stored total is off by d
OrderDoc(u, d) ==
    [NoOrder EXCEPT !.user = u,
        !.items = <<[product |-> "p2", quantity |-> 2, price |-> 500, total |-> 1000]>>,
        !.subtotal = 1000, !.shippingCost = 200, !.tax = 50, !.total = 1250 + d,
        !.status = "pending", !.paymentStatus = "pending",
        !.paymentMethod = "cash_on_delivery"]

saveOrder(doc) ==
    /\ Arrive
    /\ IF ~TotalMatches(doc)
       THEN /\ last' = Response("saveOrder", doc.user, 0, "TotalMismatch")
            /\ UNCHANGED orders
       ELSE /\ orders' = Append(orders, [doc EXCEPT
                                 !.orderNumber = orderNumberOnSave(doc, TRUE, orders),
                                 !.createdAt = now])
            /\ last' = Response("saveOrder", doc.user, Len(orders) + 1, "ok")
    /\ UNCHANGED <<products, carts, req, now, aside>>

-----------------------------------------------------------------------------
\* OrderSchema.methods.updateStatus, called on a freshly loaded order

Statuses == {"pending", "confirmed", "processing", "shipped", "delivered",
             "cancelled", "refunded"}

\* the setter of a String path with trim: true
Trim(str) == IF str = " " THEN "" ELSE str

\* variant that marks the order paid whatever the new status
paymentStatusAfterAlways(o, newStatus) == "paid"

\* if (newStatus === "delivered") this.paymentStatus = "paid"
paymentStatusAfter(o, newStatus) ==
    IF newStatus = "delivered" THEN "paid" ELSE o.paymentStatus

\* this.notes = this.notes ? `${this.notes}\n${notes}` : notes
AppendNotes(old, notes) == Trim(IF old # "" THEN old \o "\n" \o notes ELSE notes)

\* updateStatus(newStatus, notes) with its save; an empty notes is no notes
updateStatus(id, newStatus, notes) ==
    /\ Arrive
    /\ id \in DOMAIN orders
    /\ IF ~TotalMatches(orders[id])
       THEN /\ last' = [Response("updateStatus", "none", id, "TotalMismatch")
                            EXCEPT !.notes = notes]
            /\ UNCHANGED orders
       ELSE /\ orders' = [orders EXCEPT ![id].status = newStatus,
                             ![id].orderNumber =
                                 orderNumberOnSave(orders[id], FALSE, orders),
                             ![id].deliveredAt =
                                 IF newStatus = "delivered" THEN now ELSE @,
                             ![id].paymentStatus =
                                 paymentStatusAfter(orders[id], newStatus),
                             ![id].cancelledAt =
                                 IF newStatus = "cancelled" THEN now ELSE @,
                             ![id].cancellationReason =
                                 IF newStatus = "cancelled" /\ notes # ""
                                 THEN Trim(notes) ELSE @,
                             ![id].notes =
                                 IF notes # "" /\ newStatus # "cancelled"
                                 THEN AppendNotes(@, notes) ELSE @]
            /\ last' = [Response("updateStatus", "none", id, "ok")
                            EXCEPT !.notes = notes]
    /\ UNCHANGED <<products, carts, req, now, aside>>

-----------------------------------------------------------------------------
\* the clock read by new Date(), in days; the model follows MaxDays of them
Tick ==
    /\ now < MaxDays
    /\ now' = now + 1
    /\ last' = NoResponse
    /\ UNCHANGED <<products, carts, orders, req, nreq, aside>>

-----------------------------------------------------------------------------
\* carts as addToCart leaves them: u1's holds the last unit of p1, u2's holds the
\* last unit of p1 and all of p2
FilledCart(u) ==
    IF u = "u1" THEN <<[product |-> "p1", quantity |-> 1]>>
    ELSE <<[product |-> "p1", quantity |-> 1],
           [product |-> "p2", quantity |-> InitQuantity("p2")]>>

\* the shop's users are verified and active, no auth request is in flight, no
\* welcome email is on its way and the limiters have seen nobody
Settled ==
    /\ users = [u \in Users |-> [isEmailVerified |-> TRUE, status |-> "active",
                                 emailVerificationOTP |-> NoOtp,
                                 otpExpires |-> NoDate]]
    /\ auth = [r \in Slots |-> AuthIdle]
    /\ mails = [u \in Users |-> [pending |-> 0, sent |-> 0, failed |-> 0]]
    /\ rateLimitStore = <<>>
    /\ admitted = [l \in Limiters |-> [k \in Ips |-> <<>>]]

\* the full catalog; u1 has not opened a cart yet, u2 has filled one
Init ==
    /\ products = [p \in Products |-> [quantity |-> InitQuantity(p), status |-> "active",
                                       price |-> InitPrice(p)]]
    /\ carts = [u \in Users |->
                  IF u = "u1" THEN [exists |-> FALSE, items |-> <<>>]
                  ELSE [exists |-> TRUE, items |-> FilledCart(u)]]
    /\ orders = <<>>
    /\ req = [r \in Slots |-> Idle]
    /\ last = NoResponse
    /\ nreq = 0
    /\ now = 0
    /\ Settled

Moderation ==
    \/ \E p \in Products : revokeProduct(p)
    \/ \E p \in Products : reactivateProduct(p)

\* addToCart requests served in the slots S with quantities drawn from Q
AddToCartWith(S, Q) ==
    \/ \E r \in S, u \in Users, p \in Products, q \in Q :
          addToCartProduct(r, u, p, q)
    \/ \E r \in S : addToCartCart(r)
    \/ \E r \in S : addToCartCreate(r)
    \/ \E r \in S : addToCartSave(r)

AddToCartOn(S) == AddToCartWith(S, 1..MaxQty)

\* updateCartItem requests served in the slots S with quantities drawn from Q
UpdateCartItemWith(S, Q) ==
    \/ \E r \in S, u \in Users, p \in Products, q \in Q :
          updateCartItemCart(r, u, p, q)
    \/ \E r \in S : updateCartItemProduct(r)
    \/ \E r \in S : updateCartItemSave(r)

UpdateCartItemOn(S) == UpdateCartItemWith(S, 0..MaxQty)

RemoveFromCartOn(S) ==
    \/ \E r \in S, u \in Users, p \in Products : removeFromCartCart(r, u, p)
    \/ \E r \in S : removeFromCartSave(r)

ClearCartOn(S) ==
    \/ \E r \in S, u \in Users : clearCartCart(r, u)
    \/ \E r \in S : clearCartSave(r)

GetCartOn(S) ==
    \/ \E r \in S, u \in Users : getCartCart(r, u)
    \/ \E r \in S : getCartCreate(r)
    \/ \E r \in S : getCartPopulate(r)
    \/ \E r \in S : getCartSave(r)

CreateOrderOn(S) ==
    \/ \E r \in S, u \in Users, a \in BOOLEAN :
          createOrderFind(r, u, a, "cash_on_delivery")
    \/ \E r \in S : createOrderNumber(r)
    \/ \E r \in S : createOrderInsert(r)
    \/ \E r \in S : createOrderDec(r)
    \/ \E r \in S : createOrderClear(r)

CancelOrderOn(S) ==
    \/ \E r \in S, u \in Users, id \in DOMAIN orders : cancelOrderFind(r, u, id)
    \/ \E r \in S : cancelOrderInc(r)
    \/ \E r \in S : cancelOrderSave(r)

\* request bodies of processPayment: the method, whether card number and CVV are
\* given, and the outcome of Math.random() > 0.1 (both matter to credit_card only)
PaymentInputs ==
    {[method |-> m, detailsOk |-> TRUE, random |-> TRUE] :
        m \in (PaymentMethods \ {"credit_card"}) \cup {"other"}}
    \cup {[method |-> "credit_card", detailsOk |-> FALSE, random |-> TRUE]}
    \cup {[method |-> "credit_card", detailsOk |-> TRUE, random |-> b] : b \in BOOLEAN}

ProcessPaymentOn(S) ==
    \/ \E r \in S, u \in Users, id \in DOMAIN orders, b \in PaymentInputs :
          processPaymentFind(r, u, id, b.method, b.detailsOk, b.random)
    \/ \E r \in S : processPaymentSave(r)

ProcessRefundOn(S) ==
    \/ \E r \in S, u \in Users, id \in DOMAIN orders :
          processRefundFind(r, u, id)
    \/ \E r \in S : processRefundSave(r)

AddToCart == AddToCartOn(Slots)
UpdateCartItem == UpdateCartItemOn(Slots)
CreateOrder == CreateOrderOn(Slots)
CancelOrder == CancelOrderOn(Slots)
ProcessPayment == ProcessPaymentOn(Slots)
ProcessRefund == ProcessRefundOn(Slots)
GetCartSummaryOn(S) ==
    \/ \E r \in S, u \in Users : getCartSummaryCart(r, u)
    \/ \E r \in S : getCartSummaryPopulate(r)

RemoveFromCart == RemoveFromCartOn(Slots)
ClearCart == ClearCartOn(Slots)
GetCart == GetCartOn(Slots)

\* status updates that give no notes (the default of the parameter)
UpdateStatus == \E id \in DOMAIN orders, st \in Statuses : updateStatus(id, st, "")

\* catalog, carts and checkout
Next == Moderation \/ AddToCart \/ CreateOrder

Spec == Init /\ [][Next]_vars

\* the life of an order, followed from two filled carts
InitLifecycle ==
    /\ products = [p \in Products |-> [quantity |-> InitQuantity(p), status |-> "active",
                                       price |-> InitPrice(p)]]
    /\ carts = [u \in Users |-> [exists |-> TRUE, items |-> FilledCart(u)]]
    /\ orders = <<>>
    /\ req = [r \in Slots |-> Idle]
    /\ last = NoResponse
    /\ nreq = 0
    /\ now = 0
    /\ Settled

NextLifecycle ==
    CreateOrder \/ CancelOrder \/ ProcessPayment \/ ProcessRefund \/ UpdateStatus

SpecLifecycle == InitLifecycle /\ [][NextLifecycle]_vars

\* requests served one at a time, and documents saved through the Order model
SaveOrder == \E u \in Users, d \in {-1, 0, 1} : saveOrder(OrderDoc(u, d))

OneAtATime == {1}

NextSave ==
    \/ CreateOrderOn(OneAtATime)
    \/ CancelOrderOn(OneAtATime)
    \/ ProcessPaymentOn(OneAtATime)
    \/ ProcessRefundOn(OneAtATime)
    \/ UpdateStatus
    \/ SaveOrder

SpecSave == InitLifecycle /\ [][NextSave]_vars

\* catalog, carts, checkout and cancellation
NextStock == AddToCart \/ UpdateCartItem \/ CreateOrder \/ CancelOrder

SpecStock == Init /\ [][NextStock]_vars

\* concurrent checkouts of the two filled carts
SpecCheckout == InitLifecycle /\ [][CreateOrder]_vars

\* checkout, one request at a time, over a store whose updates may fail
NextFault ==
    \/ AddToCartOn(OneAtATime)
    \/ CreateOrderOn(OneAtATime)
    \/ \E r \in OneAtATime : createOrderDecFails(r)

SpecFault == Init /\ [][NextFault]_vars

\* checkout and cancellation from the two filled carts
SpecCancel == InitLifecycle /\ [][CreateOrder \/ CancelOrder]_vars

\* checkout of one cart drawn over a range of prices and quantities
Prices == {10, 500, 2500, 5010}

InitTotals ==
    /\ \E price \in [Products -> Prices], q1 \in 1..MaxQty, q2 \in 0..MaxQty :
          /\ products = [p \in Products |-> [quantity |-> MaxQty, status |-> "active",
                                             price |-> price[p]]]
          /\ carts = [u \in Users |->
                IF u = "u1"
                THEN [exists |-> TRUE, items |->
                        <<[product |-> "p1", quantity |-> q1]>> \o
                        (IF q2 = 0 THEN <<>> ELSE <<[product |-> "p2", quantity |-> q2]>>)]
                ELSE [exists |-> FALSE, items |-> <<>>]]
    /\ orders = <<>>
    /\ req = [r \in Slots |-> Idle]
    /\ last = NoResponse
    /\ nreq = 0
    /\ now = 0
    /\ Settled

SpecTotals == InitTotals /\ [][CreateOrderOn(OneAtATime)]_vars

-----------------------------------------------------------------------------
\* vocabulary of the properties

\* every request has been answered
Quiet == \A r \in Slots : req[r].pc = "idle"

RECURSIVE LineUnits(_, _, _)
LineUnits(lines, p, i) ==
    IF i > Len(lines) THEN 0
    ELSE (IF lines[i].product = p THEN lines[i].quantity ELSE 0)
            + LineUnits(lines, p, i + 1)

RECURSIVE UnitsIn(_, _, _)
UnitsIn(os, p, i) ==
    IF i > Len(os) THEN 0
    ELSE LineUnits(os[i].items, p, 1) + UnitsIn(os, p, i + 1)

\* units of p in all persisted orders
UnitsOrdered(p) == UnitsIn(orders, p, 1)

\* units of p in the persisted orders that are not cancelled
UnitsHeld(p) == UnitsIn(SelectSeq(orders, LAMBDA o : o.status # "cancelled"), p, 1)

\* the step just taken answered a request of kind o with response
Answered(o, response) == last.op = o /\ last.resp = response

-----------------------------------------------------------------------------
\* C1: two concurrent checkouts, by u1 and by u2, of the last unit of p1 (the
\* catalog holds exactly one): once every request has answered, at most one order
\* holds that unit and the stock is the stock before checkout minus exactly 1.
C1_LastUnitSoldOnce ==
    (Quiet /\ UnitsOrdered("p1") > 0) =>
        /\ UnitsOrdered("p1") = 1
        /\ products["p1"].quantity = InitQuantity("p1") - 1

\* C2: in every reachable state, under any interleaving of addToCart,
\* updateCartItem, createOrder and cancelOrder, every product's quantity-on-hand
\* is a non-negative integer.
C2_QuantityNonNegative ==
    \A p \in Products : products[p].quantity \in Nat

-----------------------------------------------------------------------------
\* steps of requests, as seen in a pair of states

\* a createOrder request of user u arrives in this step
CreateOrderArrives(u) ==
    /\ nreq' = nreq + 1
    /\ \/ last'.op = "createOrder" /\ last'.user = u
       \/ \E r \in Slots : /\ req[r].pc = "idle"
                           /\ req'[r].op = "createOrder" /\ req'[r].user = u

\* a cancelOrder request of user u for order id arrives in this step
CancelOrderArrives(u, id) ==
    /\ nreq' = nreq + 1
    /\ \/ last'.op = "cancelOrder" /\ last'.user = u /\ last'.orderId = id
       \/ \E r \in Slots : /\ req[r].pc = "idle"
                           /\ req'[r].op = "cancelOrder" /\ req'[r].user = u
                           /\ req'[r].orderId = id

\* the incomplete-address answer; createOrder gives it to no other request
AddressComplete == last'.resp # "ValidationError"

\* some line of the cart asks for more than the stock, or for a non-active product
HasUnavailableLine(cart) ==
    /\ cart.exists
    /\ \E i \in DOMAIN cart.items :
          \/ products[cart.items[i].product].status # "active"
          \/ cart.items[i].quantity > products[cart.items[i].product].quantity

\* some line of the cart can be satisfied
HasAvailableLine(cart) ==
    /\ cart.exists
    /\ \E i \in DOMAIN cart.items :
          /\ products[cart.items[i].product].status = "active"
          /\ cart.items[i].quantity <= products[cart.items[i].product].quantity

\* subtotal + shippingCost + tax equals total within 0.01
WithinTolerance(o) ==
    LET diff == (o.subtotal + o.shippingCost + o.tax) - o.total
    IN 100 * diff <= 1 /\ 100 * diff >= -1

-----------------------------------------------------------------------------
\* C3: every persisted order has subtotal + shippingCost + tax equal to total
\* within 0.01, after any sequence of createOrder, processPayment, processRefund,
\* cancelOrder, updateStatus and saves of the Order model; a save whose totals
\* differ by more is rejected and persists nothing.
C3_TotalsValidated ==
    /\ [](\A k \in DOMAIN orders : WithinTolerance(orders[k]))
    /\ [][last'.resp = "TotalMismatch" => orders' = orders]_vars

\* C3, witness: a save with a wrong total has just been rejected while an order
\* is persisted
C3_Witness ==
    /\ Answered("saveOrder", "TotalMismatch")
    /\ Len(orders) > 0

\* C4 as stated: every createOrder request whose cart has a line that cannot be
\* satisfied answers with the insufficient-inventory error and changes nothing.
C4_Original ==
    [][\A u \in Users :
          (CreateOrderArrives(u) /\ HasUnavailableLine(carts[u])) =>
              /\ last'.resp = "Unavailable"
              /\ UNCHANGED <<products, carts, orders>>]_vars

\* C4, amended: a createOrder request with a complete shipping address whose cart
\* has a line that cannot be satisfied answers with the insufficient-inventory
\* error and leaves stock, carts and orders unchanged, whatever the other lines.
C4_UnavailableLineFailsWhole ==
    [][\A u \in Users :
          (CreateOrderArrives(u) /\ HasUnavailableLine(carts[u]) /\ AddressComplete) =>
              /\ last'.resp = "Unavailable"
              /\ UNCHANGED <<products, carts, orders>>]_vars

\* C4, witness: a checkout was refused for a cart with one line that cannot be
\* satisfied next to one that can
C4_Witness ==
    /\ Answered("createOrder", "Unavailable")
    /\ HasUnavailableLine(carts[last.user])
    /\ HasAvailableLine(carts[last.user])

\* C5 as stated: every createOrder request of a user without cart lines answers
\* with the empty-cart error, creates no order and changes no quantity.
C5_Original ==
    [][\A u \in Users :
          (CreateOrderArrives(u) /\ (~carts[u].exists \/ carts[u].items = <<>>)) =>
              /\ last'.resp = "EmptyCart"
              /\ UNCHANGED <<products, orders>>]_vars

\* C5, amended: a createOrder request with a complete shipping address by a user
\* whose cart is absent or has no lines answers with the empty-cart error, creates
\* no order and changes no quantity.
C5_EmptyCartFails ==
    [][\A u \in Users :
          (/\ CreateOrderArrives(u)
           /\ (~carts[u].exists \/ carts[u].items = <<>>)
           /\ AddressComplete) =>
              /\ last'.resp = "EmptyCart"
              /\ UNCHANGED <<products, orders>>]_vars

\* C5, witness: a checkout was refused for a cart that exists and has no lines
C5_Witness ==
    /\ Answered("createOrder", "EmptyCart")
    /\ carts[last.user].exists
    /\ carts[last.user].items = <<>>

\* C6: once every request has answered, cancellation has given back each
\* cancelled line exactly once: stock is the initial stock minus the units held
\* by the orders that are not cancelled.
C6_RestoredExactlyOnce ==
    Quiet => \A p \in Products :
                products[p].quantity = InitQuantity(p) - UnitsHeld(p)

\* C7: a cancelOrder request of the owner goes ahead only when the status it
\* reads is pending or confirmed; for any other status it answers with the
\* cannot-cancel error and leaves orders and stock unchanged; a cancellation that
\* succeeds read a pending or confirmed order.
C7_CancelOnlyPendingOrConfirmed ==
    [][/\ \A u \in Users, id \in DOMAIN orders :
            (CancelOrderArrives(u, id) /\ orders[id].user = u) =>
                IF orders[id].status \in {"pending", "confirmed"}
                THEN last'.resp = "none"
                ELSE /\ last'.resp = "CannotCancel"
                     /\ UNCHANGED <<orders, products>>
       /\ \A r \in Slots :
            (req[r].op = "cancelOrder" /\ req'[r].pc = "idle" /\ last'.resp = "ok") =>
                /\ req[r].order.status \in {"pending", "confirmed"}
                /\ orders'[req[r].orderId].status = "cancelled"]_vars

\* C7, witness: the cancellation of a shipped order was refused
C7_Witness ==
    /\ Answered("cancelOrder", "CannotCancel")
    /\ orders[last.orderId].status = "shipped"

\* the (product, quantity) pairs of a list of lines, in order
ProductQuantities(lines) ==
    [i \in DOMAIN lines |-> <<lines[i].product, lines[i].quantity>>]

\* C8: a createOrder request that succeeds has loaded the cart's lines, has
\* inserted exactly one order, pending / pending, whose (product, quantity) lines
\* are those lines, has decremented each line's product by exactly the line's
\* quantity, one line per step, and answers leaving the cart in existence with no
\* lines.
C8_SuccessfulCheckout ==
    [][\A r \in Slots :
          /\ (req[r].pc = "idle" /\ req'[r].op = "createOrder") =>
                /\ req'[r].cart = carts[req'[r].user].items
                /\ req'[r].cart # <<>>
                /\ UNCHANGED <<products, carts, orders>>
          /\ (req[r].pc = "co_insert" /\ req'[r].pc = "co_dec") =>
                /\ orders' = Append(orders, orders'[Len(orders')])
                /\ req'[r].orderId = Len(orders')
                /\ orders'[Len(orders')].user = req[r].user
                /\ orders'[Len(orders')].status = "pending"
                /\ orders'[Len(orders')].paymentStatus = "pending"
                /\ ProductQuantities(orders'[Len(orders')].items)
                      = ProductQuantities(req[r].cart)
                /\ req'[r].i = 1
                /\ UNCHANGED <<products, carts>>
          /\ (req[r].pc = "co_dec" /\ req'[r].i # req[r].i) =>
                /\ \A p \in Products :
                      products'[p].quantity = products[p].quantity -
                          (IF req[r].cart[req[r].i].product = p
                           THEN req[r].cart[req[r].i].quantity ELSE 0)
                /\ req'[r].i = req[r].i + 1
                /\ (req'[r].pc = "co_clear") = (req[r].i = Len(req[r].cart))
                /\ UNCHANGED <<carts, orders>>
          /\ (req[r].op = "createOrder" /\ req'[r].pc = "idle" /\ last'.resp = "ok") =>
                /\ req[r].pc = "co_clear"
                /\ req[r].i = Len(req[r].cart) + 1
                /\ carts'[req[r].user].exists
                /\ carts'[req[r].user].items = <<>>
                /\ ProductQuantities(orders'[req[r].orderId].items)
                      = ProductQuantities(req[r].cart)
                /\ UNCHANGED <<products, orders>>]_vars

\* C8, witness: a checkout of a two-line cart, one line of more than one unit,
\* has just succeeded
C8_Witness ==
    /\ Answered("createOrder", "ok")
    /\ Len(orders[last.orderId].items) = 2
    /\ \E i \in DOMAIN orders[last.orderId].items :
          orders[last.orderId].items[i].quantity > 1
    /\ carts[last.user].exists
    /\ carts[last.user].items = <<>>

RECURSIVE LineSum(_)
LineSum(lines) ==
    IF lines = <<>> THEN 0 ELSE Head(lines).total + LineSum(Tail(lines))

\* C9: every order createOrder persists has each line total = captured price x
\* quantity, subtotal = sum of the line totals, shippingCost = 0 above 5000 and
\* 200 otherwise (exactly 5000 pays 200), tax = subtotal x 0.05 rounded to the
\* nearest unit and total = subtotal + shippingCost + tax; one line of 2 x 500
\* gives 1000, 200, 50 and 1250.
C9_TotalsComputed ==
    \A k \in DOMAIN orders :
        LET o == orders[k]
        IN /\ \A i \in DOMAIN o.items :
                 /\ o.items[i].price = products[o.items[i].product].price
                 /\ o.items[i].total = o.items[i].price * o.items[i].quantity
           /\ o.subtotal = LineSum(o.items)
           /\ (o.subtotal > 5000 => o.shippingCost = 0)
           /\ (o.subtotal <= 5000 => o.shippingCost = 200)
           /\ 20 * o.tax - 10 <= o.subtotal
           /\ o.subtotal < 20 * o.tax + 10
           /\ o.total = o.subtotal + o.shippingCost + o.tax
           /\ (Len(o.items) = 1 /\ o.items[1].quantity = 2 /\ o.items[1].price = 500) =>
                 <<o.subtotal, o.shippingCost, o.tax, o.total>> = <<1000, 200, 50, 1250>>

\* C9, witness: an order with a subtotal of exactly 5000 is persisted
C9_Witness ==
    \E k \in DOMAIN orders :
        /\ orders[k].subtotal = 5000
        /\ orders[k].shippingCost = 200
        /\ orders[k].total = 5450

\* C10: once a createOrder request has finished, failed or not, no persisted
\* order with paymentStatus = pending lacks an inventory decrement: stock is the
\* initial stock minus the units of the payment-pending orders.
C10_FailedCheckoutReconciled ==
    Quiet => \A p \in Products :
                products[p].quantity = InitQuantity(p) -
                    UnitsIn(SelectSeq(orders, LAMBDA o : o.paymentStatus = "pending"), p, 1)

-----------------------------------------------------------------------------
\* C11: no two persisted orders share an order number; the order an insert adds
\* holds the highest sequence persisted so far plus one (1 for the first), and a
\* createOrder whose number is already taken answers the duplicate-key error
\* and persists nothing.
C11_OrderNumbersUnique ==
    /\ [](\A i, j \in DOMAIN orders :
            orders[i].orderNumber = orders[j].orderNumber => i = j)
    /\ [][/\ Len(orders') > Len(orders) =>
                LET n == orders'[Len(orders')].orderNumber
                IN /\ \A k \in DOMAIN orders : orders[k].orderNumber < n
                   /\ n = 1 \/ \E k \in DOMAIN orders : orders[k].orderNumber = n - 1
          /\ last'.resp = "DuplicateKey" => orders' = orders]_vars

\* C11, witness: a checkout that had computed the number of an order persisted in
\* the meantime has just been refused
C11_Witness ==
    /\ Answered("createOrder", "DuplicateKey")
    /\ Len(orders) > 0

\* the statuses the order workflow names as terminal
TerminalStatuses == {"delivered", "cancelled", "refunded"}

\* C12: once an order's status is delivered, cancelled or refunded, no step of
\* processPayment, processRefund, cancelOrder or updateStatus changes that
\* order's status.
C12_TerminalStatusesStay ==
    [][\A k \in DOMAIN orders :
          orders[k].status \in TerminalStatuses =>
              orders'[k].status = orders[k].status]_vars

\* a processPayment request of user u for order id arrives in this step
ProcessPaymentArrives(u, id) ==
    /\ nreq' = nreq + 1
    /\ \/ last'.op = "processPayment" /\ last'.user = u /\ last'.orderId = id
       \/ \E r \in Slots : /\ req[r].pc = "idle"
                           /\ req'[r].op = "processPayment" /\ req'[r].user = u
                           /\ req'[r].orderId = id

\* C13: a processPayment request of the owner that reads the order as paid or as
\* cancelled is refused in that step; a processPayment that answers success had
\* read an order neither paid nor cancelled; and every processPayment that
\* answers a failure does so in a step that leaves every order's status,
\* paymentStatus, paymentMethod and transaction id unchanged.
C13_FailedPaymentChangesNothing ==
    [][/\ \A u \in Users, id \in DOMAIN orders :
            (/\ ProcessPaymentArrives(u, id)
             /\ orders[id].user = u
             /\ orders[id].paymentStatus = "paid" \/ orders[id].status = "cancelled") =>
                /\ last'.resp \in {"AlreadyPaid", "OrderCancelled"}
                /\ orders' = orders
       /\ (last'.op = "processPayment" /\ last'.resp # "ok") => orders' = orders
       /\ \A r \in Slots :
            (req[r].op = "processPayment" /\ req'[r].pc = "idle" /\ last'.resp = "ok") =>
                /\ req[r].order.paymentStatus # "paid"
                /\ req[r].order.status # "cancelled"]_vars

\* C13, witness: a payment of an order that is already paid has just been refused
C13_Witness ==
    /\ Answered("processPayment", "AlreadyPaid")
    /\ orders[last.orderId].paymentStatus = "paid"
    /\ orders[last.orderId].user = last.user

\* C14: the step in which a processPayment answers success leaves the order with
\* paymentStatus = paid and with the request's payment method; its status is
\* confirmed when the request had read it as pending, and is left as it was when
\* the request had read any other status.
C14_SuccessfulPayment ==
    [][\A r \in Slots :
          (req[r].op = "processPayment" /\ req'[r].pc = "idle" /\ last'.resp = "ok") =>
              LET id == req[r].orderId
              IN /\ orders'[id].paymentStatus = "paid"
                 /\ orders'[id].paymentMethod = req[r].method
                 /\ req[r].method \in PaymentMethods
                 /\ req[r].order.status = "pending" =>
                        orders'[id].status = "confirmed"
                 /\ req[r].order.status # "pending" =>
                        orders'[id].status = orders[id].status
                 /\ \A k \in DOMAIN orders : k # id => orders'[k] = orders[k]]_vars

\* C14, witness: the payment of a shipped order has just succeeded and the order
\* is still shipped
C14_Witness ==
    /\ Answered("processPayment", "ok")
    /\ orders[last.orderId].status = "shipped"
    /\ orders[last.orderId].paymentStatus = "paid"

\* C15: the step in which a credit_card, bank_transfer or wallet payment answers
\* success returns a transaction id that is not null and leaves that id on the
\* order; a cash_on_delivery payment that succeeds returns and records none.
C15_TransactionIdRecorded ==
    [][\A r \in Slots :
          (req[r].op = "processPayment" /\ req'[r].pc = "idle" /\ last'.resp = "ok") =>
              IF req[r].method = "cash_on_delivery"
              THEN /\ last'.transactionId = "null"
                   /\ orders'[req[r].orderId].paymentTransactionId = "null"
              ELSE /\ last'.transactionId # "null"
                   /\ orders'[req[r].orderId].paymentTransactionId = last'.transactionId]_vars

-----------------------------------------------------------------------------
\* payment, delivery and refund of an order over the days after u1's checkout,
\* one request at a time

\* the state u1's checkout of its filled cart leaves
InitRefund ==
    /\ products = [p \in Products |->
                     [quantity |-> InitQuantity(p) - LineUnits(FilledCart("u1"), p, 1),
                      status |-> "active", price |-> InitPrice(p)]]
    /\ carts = [u \in Users |->
                  [exists |-> TRUE, items |-> IF u = "u1" THEN <<>> ELSE FilledCart(u)]]
    /\ orders = <<[NewOrder("u1", Populate(FilledCart("u1")), "cash_on_delivery")
                      EXCEPT !.orderNumber = 1, !.createdAt = 0]>>
    /\ req = [r \in Slots |-> Idle]
    /\ last = NoResponse
    /\ nreq = 0
    /\ now = 0
    /\ Settled

\* one request at a time, the admin's status updates included
NextRefund ==
    \/ ProcessPaymentOn(OneAtATime)
    \/ ProcessRefundOn(OneAtATime)
    \/ Quiet /\ UpdateStatus
    \/ Tick

SpecRefund == InitRefund /\ [][NextRefund]_vars

\* a processRefund request of user u for order id arrives in this step
ProcessRefundArrives(u, id) ==
    /\ nreq' = nreq + 1
    /\ \/ last'.op = "processRefund" /\ last'.user = u /\ last'.orderId = id
       \/ \E r \in Slots : /\ req[r].pc = "idle"
                           /\ req'[r].op = "processRefund" /\ req'[r].user = u
                           /\ req'[r].orderId = id

\* the step in which request r, a processRefund, answers
ProcessRefundAnswers(r) == req[r].op = "processRefund" /\ req'[r].pc = "idle"

\* C16: a processRefund request of the owner that reads an order whose
\* paymentStatus is not paid is refused in that step, and every processRefund
\* that answers a failure leaves the orders unchanged; the step in which a
\* processRefund answers success had read the order as paid and leaves both its
\* paymentStatus and its status refunded; and an order that is not paid becomes
\* paid only by a successful processPayment or by a delivery, so that a second
\* processRefund with neither in between reads it as not paid.
C16_RefundOnlyPaid ==
    [][/\ \A u \in Users, id \in DOMAIN orders :
             (/\ ProcessRefundArrives(u, id)
              /\ orders[id].user = u
              /\ orders[id].paymentStatus # "paid") =>
                 last'.resp = "NotPaid" /\ orders' = orders
       /\ (last'.op = "processRefund" /\ last'.resp # "ok") => orders' = orders
       /\ \A r \in Slots :
             (ProcessRefundAnswers(r) /\ last'.resp = "ok") =>
                 /\ req[r].order.paymentStatus = "paid"
                 /\ orders'[req[r].orderId].paymentStatus = "refunded"
                 /\ orders'[req[r].orderId].status = "refunded"
       /\ \A id \in DOMAIN orders :
             (orders[id].paymentStatus # "paid" /\ orders'[id].paymentStatus = "paid") =>
                 \/ last'.op = "processPayment" /\ last'.resp = "ok"
                 \/ last'.op = "updateStatus" /\ orders'[id].status = "delivered"]_vars

\* a second processRefund is refused on the order a first one refunded
C16_Witness ==
    /\ Answered("processRefund", "NotPaid")
    /\ orders[last.orderId].user = last.user
    /\ orders[last.orderId].paymentStatus = "refunded"
    /\ orders[last.orderId].status = "refunded"
    /\ orders[last.orderId].paymentMethod # "cash_on_delivery"

\* C17: a delivered order carries its delivery time; a processRefund request of
\* the owner that reads the order as paid and delivered goes on to refund it
\* when the clock is at most 7 days past the delivery time, and is refused with
\* the refund-period error in that step, the orders unchanged, when more than 7
\* days have passed; the refund that went on answers success and leaves the
\* order refunded.
C17_RefundWithinSevenDays ==
    /\ [](\A id \in DOMAIN orders :
             orders[id].status = "delivered" =>
                 orders[id].deliveredAt # NoDate /\ orders[id].deliveredAt <= now)
    /\ [][/\ \A u \in Users, id \in DOMAIN orders :
                (/\ ProcessRefundArrives(u, id)
                 /\ orders[id].user = u
                 /\ orders[id].paymentStatus = "paid"
                 /\ orders[id].status = "delivered") =>
                    IF now - orders[id].deliveredAt <= 7
                    THEN /\ last'.resp = "none"
                         /\ \E r \in Slots : /\ req'[r].pc = "rf_save"
                                             /\ req'[r].orderId = id
                    ELSE /\ last'.resp = "RefundExpired"
                         /\ orders' = orders
          /\ \A r \in Slots :
                (ProcessRefundAnswers(r) /\ req[r].order.status = "delivered") =>
                    /\ last'.resp = "ok"
                    /\ orders'[req[r].orderId].status = "refunded"
                    /\ orders'[req[r].orderId].paymentStatus = "refunded"]_vars

\* a refund asked 8 days after the delivery is refused
C17_Witness ==
    /\ Answered("processRefund", "RefundExpired")
    /\ orders[last.orderId].user = last.user
    /\ orders[last.orderId].status = "delivered"
    /\ orders[last.orderId].paymentStatus = "paid"
    /\ now = orders[last.orderId].deliveredAt + 8

-----------------------------------------------------------------------------
\* the cart handlers, one request at a time

SpecAdd == Init /\ [][AddToCartOn(OneAtATime)]_vars

\* the lines of a cart that hold product p
LinesOf(items, p) == {i \in DOMAIN items : items[i].product = p}

\* the step in which request r, an addToCart, compares the cart with the stock
AddToCartChecks(r) ==
    /\ req[r].op = "addToCart"
    /\ \/ req[r].pc = "atc_cart" /\ carts[req[r].user].exists
       \/ req[r].pc = "atc_create" /\ req'[r].pc # "atc_create"

\* C18: with requests served one at a time, the step in which an addToCart of q
\* units of p answers success leaves the cart with exactly one line for p, q
\* units more than the cart held for p before; and an addToCart for which the
\* units of p in the cart plus q exceed the quantity on hand it read is refused
\* at its stock check and leaves the lines of the cart as they were.
C18_AddMergesAndRespectsStock ==
    [][\A r \in Slots :
          /\ (req[r].op = "addToCart" /\ req'[r].pc = "idle" /\ last'.resp = "ok") =>
                LET u == req[r].user
                    p == req[r].productId
                IN /\ Cardinality(LinesOf(carts'[u].items, p)) = 1
                   /\ LineUnits(carts'[u].items, p, 1) =
                          LineUnits(carts[u].items, p, 1) + req[r].quantity
          /\ (/\ AddToCartChecks(r)
              /\ LineUnits(carts[req[r].user].items, req[r].productId, 1)
                     + req[r].quantity > req[r].product) =>
                /\ last'.resp = "OutOfStock"
                /\ carts'[req[r].user].items = carts[req[r].user].items]_vars

\* every cart handler, the checkout and the moderation of the catalog
NextCart ==
    \/ Moderation
    \/ AddToCart
    \/ UpdateCartItem
    \/ RemoveFromCart
    \/ ClearCart
    \/ GetCart
    \/ CreateOrder

SpecCart == Init /\ [][NextCart]_vars

\* C19: whatever the interleaving of addToCart, updateCartItem, removeFromCart,
\* clearCart, getCart and createOrder, no cart ever holds two lines for the same
\* product.
C19_OneLinePerProduct ==
    \A u \in Users, p \in Products : Cardinality(LinesOf(carts[u].items, p)) <= 1

-----------------------------------------------------------------------------
\* carts filled in bulk: a catalog with BulkStock units of each product, no cart
\* opened yet, and requested quantities around the limits of a cart line
BulkQuantities == {-1, 0, 1, 60, 100, 101}

InitBulk ==
    /\ products = [p \in Products |-> [quantity |-> BulkStock, status |-> "active",
                                       price |-> InitPrice(p)]]
    /\ carts = [u \in Users |-> [exists |-> FALSE, items |-> <<>>]]
    /\ orders = <<>>
    /\ req = [r \in Slots |-> Idle]
    /\ last = NoResponse
    /\ nreq = 0
    /\ now = 0
    /\ Settled

NextBulk ==
    \/ AddToCartWith(OneAtATime, BulkQuantities)
    \/ UpdateCartItemWith(OneAtATime, BulkQuantities)

SpecBulk == InitBulk /\ [][NextBulk]_vars

\* C20: every stored cart line has a quantity from 1 to 100; an addToCart that
\* answers success asked for 1 to 100 units and the units the cart held for the
\* product plus the units asked do not exceed 100; an updateCartItem that answers
\* success asked for 0 (the line is removed) to 100 units; and an addToCart or
\* updateCartItem that answers a failure leaves the lines of every cart as they
\* were.
C20_LineQuantityInRange ==
    /\ [](\A u \in Users : \A i \in DOMAIN carts[u].items :
             carts[u].items[i].quantity >= 1 /\ carts[u].items[i].quantity <= 100)
    /\ [][\A r \in Slots :
             /\ (req[r].op = "addToCart" /\ req'[r].pc = "idle" /\ last'.resp = "ok") =>
                   /\ req[r].quantity >= 1
                   /\ LineUnits(carts[req[r].user].items, req[r].productId, 1)
                          + req[r].quantity <= 100
             /\ (req[r].op = "updateCartItem" /\ req'[r].pc = "idle"
                 /\ last'.resp = "ok") =>
                   req[r].quantity >= 0 /\ req[r].quantity <= 100
             /\ (last'.op \in {"addToCart", "updateCartItem"} /\ last'.resp # "ok") =>
                   \A u \in Users : carts'[u].items = carts[u].items]_vars

-----------------------------------------------------------------------------
\* updateCartItem, one request at a time, over a catalog under moderation

\* requested quantities: below, within and above the stock, and outside 0..100
UpdateQuantities == (-1 .. MaxStock + 1) \cup {101}

NextUpdate ==
    \/ Moderation
    \/ UpdateCartItemWith(OneAtATime, UpdateQuantities)

SpecUpdate == Init /\ [][NextUpdate]_vars

\* the first line of a cart that holds product p, 0 if none does
FirstLineOf(items, p) ==
    IF LinesOf(items, p) = {} THEN 0
    ELSE CHOOSE i \in LinesOf(items, p) : \A j \in LinesOf(items, p) : i <= j

\* the step in which the updateCartItem request r writes the line or removes it
UpdateCartItemWrites(r) ==
    LET u == req[r].user
        p == req[r].productId
        q == req[r].quantity
        items == carts[u].items
        k == FirstLineOf(items, p)
    IN /\ k # 0 =>
             /\ last'.resp = "ok"
             /\ carts'[u].items =
                   IF q = 0 THEN SelectSeq(items, LAMBDA it : it.product # p)
                   ELSE [items EXCEPT ![k].quantity = q]
             /\ \A v \in Users \ {u} : carts'[v] = carts[v]

\* C21 as stated: an updateCartItem for a product of the cart with a quantity
\* above the quantity on hand answers the out-of-stock error and leaves the carts
\* unchanged; with any other quantity above 0 it goes on to set the line to that
\* quantity, and with quantity 0 to remove the line, every other line unchanged.
C21_Original ==
    [][\A r \in Slots :
          /\ (req[r].pc = "uci_product" /\ req'[r].pc # "uci_product") =>
                IF req[r].quantity > products[req[r].productId].quantity
                THEN last'.resp = "OutOfStock" /\ carts' = carts
                ELSE req'[r].pc = "uci_save" /\ carts' = carts
          /\ (req[r].pc = "uci_save" /\ req'[r].pc # "uci_save") => UpdateCartItemWrites(r)]_vars

\* C21, amended: an updateCartItem with a quantity from 0 to 100 for a product the
\* cart holds removes the line when the quantity is 0; with a quantity above 0 it
\* answers not-found when the product is not active and the out-of-stock error
\* when the product is active and the quantity exceeds the quantity on hand, the
\* carts unchanged in both cases; otherwise it sets that line's quantity to
\* exactly the quantity and leaves every other line unchanged. A quantity outside
\* 0..100, a missing cart and a product the cart does not hold are refused with
\* the carts unchanged.
C21_UpdateCartItem ==
    [][\A r \in Slots :
          /\ (req[r].pc = "idle" /\ req'[r].op = "updateCartItem") =>
                /\ req'[r].quantity >= 0 /\ req'[r].quantity <= 100
                /\ carts[req'[r].user].exists
                /\ req'[r].pc = IF req'[r].quantity = 0 THEN "uci_save" ELSE "uci_product"
          /\ (last'.op = "updateCartItem" /\ nreq' = nreq + 1) =>
                last'.resp \in {"ValidationError", "NotFound"} /\ carts' = carts
          /\ (req[r].pc = "uci_product" /\ req'[r].pc # "uci_product") =>
                IF products[req[r].productId].status # "active"
                THEN last'.resp = "NotFound" /\ carts' = carts
                ELSE IF req[r].quantity > products[req[r].productId].quantity
                THEN last'.resp = "OutOfStock" /\ carts' = carts
                ELSE req'[r].pc = "uci_save" /\ carts' = carts
          /\ (req[r].pc = "uci_save" /\ req'[r].pc # "uci_save") =>
                /\ UpdateCartItemWrites(r)
                /\ FirstLineOf(carts[req[r].user].items, req[r].productId) = 0 =>
                      last'.resp = "ItemNotFound" /\ carts' = carts]_vars

\* C21, witness: an updateCartItem has set u2's line of p2 to one unit, the line
\* of p1 as it was
C21_Witness ==
    /\ Answered("updateCartItem", "ok")
    /\ last.user = "u2"
    /\ carts["u2"].items = <<[product |-> "p1", quantity |-> 1],
                             [product |-> "p2", quantity |-> 1]>>

-----------------------------------------------------------------------------
\* Cart.getOrCreate under its two callers, getCart and addToCart, two requests in
\* flight; the catalog stays active, so getCart has no line to drop

NextGetOrCreate ==
    \/ \E r \in Slots, u \in Users : getCartCart(r, u)
    \/ \E r \in Slots : getCartCreate(r)
    \/ \E r \in Slots : getCartPopulate(r)
    \/ AddToCart

SpecGetOrCreate == Init /\ [][NextGetOrCreate]_vars

\* request r is in its call of Cart.getOrCreate, about to look the cart up
GetOrCreateFinds(r) ==
    req[r].pc = "atc_cart" /\ req'[r].pc # "atc_cart"

\* request r is in its call of Cart.getOrCreate, about to save the cart it made
GetOrCreateCreates(r) ==
    /\ req[r].pc \in {"atc_create", "gc_create"}
    /\ req'[r].pc # req[r].pc

\* C22: a cart, once it exists, goes on existing; a getOrCreate that finds the
\* user's cart changes no cart; the save of a new cart inserts an empty cart for
\* that user when the user has none, and is refused with a duplicate-key error,
\* no cart changed, when another call has created the cart in between: no call
\* makes a second cart or touches the lines of the first.
C22_OneCartPerUser ==
    [][/\ \A u \in Users : carts[u].exists => carts'[u].exists
       /\ \A r \in Slots :
             /\ (GetOrCreateFinds(r) \/ (req[r].pc = "idle" /\ req'[r].op = "getCart")) =>
                   carts' = carts
             /\ GetOrCreateCreates(r) =>
                   IF carts[req[r].user].exists
                   THEN last'.resp = "DuplicateKey" /\ carts' = carts
                   ELSE /\ carts'[req[r].user] = [exists |-> TRUE, items |-> <<>>]
                        /\ \A v \in Users \ {req[r].user} : carts'[v] = carts[v]]_vars

\* C22, witness: of two calls that both found no cart, the second to save has
\* just been refused, and the cart the first one made is there
C22_Witness ==
    /\ last.resp = "DuplicateKey"
    /\ last.op \in {"getCart", "addToCart"}
    /\ carts[last.user].exists

-----------------------------------------------------------------------------
\* reads of the cart, one request at a time, the admin's moderation included

NextRead ==
    \/ Quiet /\ Moderation
    \/ GetCartOn(OneAtATime)
    \/ GetCartSummaryOn(OneAtATime)

SpecRead == Init /\ [][NextRead]_vars

\* the lines of a cart whose product is active
ActiveLines(items) ==
    SelectSeq(items, LAMBDA it : products[it.product].status = "active")

\* C23: a read of the cart (getCart, getCartSummary) answers success; the view it
\* returns is the lines of the user's cart whose product is active, in order and
\* with their quantities; and when it has answered, the persisted cart holds
\* those lines and no other.
C23_ReadDropsStaleLines ==
    [][\A r \in Slots :
          (req[r].op \in {"getCart", "getCartSummary"} /\ req'[r].pc = "idle") =>
              /\ last'.resp = "ok"
              /\ last'.view = ActiveLines(carts[req[r].user].items)
              /\ carts'[req[r].user].items = last'.view]_vars

-----------------------------------------------------------------------------
\* the orders of two filled carts under every later operation and under admin
\* edits of the catalog, one request at a time

\* request bodies of updateProduct: a new price or none, a new quantity or none
UpdateProduct ==
    \E p \in Products, price \in {0, 10}, quantity \in {NoQuantity, 0, MaxStock} :
        updateProduct(p, price, quantity)

NextSnapshot ==
    \/ CreateOrderOn(OneAtATime)
    \/ CancelOrderOn(OneAtATime)
    \/ ProcessPaymentOn(OneAtATime)
    \/ ProcessRefundOn(OneAtATime)
    \/ UpdateStatus
    \/ UpdateProduct

SpecSnapshot == InitLifecycle /\ [][NextSnapshot]_vars

\* what an order captures at its creation
Snapshot(o) ==
    [orderNumber |-> o.orderNumber, items |-> o.items, subtotal |-> o.subtotal,
     shippingCost |-> o.shippingCost, tax |-> o.tax, total |-> o.total]

\* C24: no step removes an order, and no step changes the order number, the
\* lines (product, quantity, price, line total), the subtotal, the shipping cost,
\* the tax or the total of an order that exists.
C24_SnapshotImmutable ==
    [][/\ Len(orders') >= Len(orders)
       /\ \A k \in DOMAIN orders : Snapshot(orders'[k]) = Snapshot(orders[k])]_vars

\* C24, witness: an order has been cancelled after the catalog price of one of
\* its products changed, and its line still carries the price it captured
C24_Witness ==
    \E k \in DOMAIN orders :
        /\ orders[k].status = "cancelled"
        /\ \E i \in DOMAIN orders[k].items :
              /\ orders[k].items[i].price = InitPrice(orders[k].items[i].product)
              /\ products[orders[k].items[i].product].price
                     # orders[k].items[i].price

-----------------------------------------------------------------------------
\* status updates, with and without notes, of the order u1 has placed, over the days

\* the notes argument: none, blank, and a text
NotesGiven == {"", " ", "late"}

UpdateStatusNotes ==
    \E id \in DOMAIN orders, st \in Statuses, notes \in NotesGiven :
        updateStatus(id, st, notes)

SpecStatus == InitRefund /\ [][UpdateStatusNotes \/ Tick]_vars

\* C25: an updateStatus(newStatus, notes) that is saved leaves the order with
\* status newStatus and every other order as it was; for delivered the order is
\* also paid and deliveredAt is the time of the call; for cancelled cancelledAt
\* is the time of the call and notes, when given, are the cancellation reason
\* (trimmed; without notes the reason stays as it was); for every other status
\* paymentStatus, deliveredAt and cancelledAt stay as they were.
C25_UpdateStatus ==
    [][(last'.op = "updateStatus" /\ last'.resp = "ok") =>
          LET id == last'.orderId
              st == orders'[id].status
              o  == orders[id]
              n  == orders'[id]
          IN /\ st \in Statuses
             /\ \A k \in DOMAIN orders : k # id => orders'[k] = orders[k]
             /\ st = "delivered" => n.paymentStatus = "paid" /\ n.deliveredAt = now
             /\ st = "cancelled" =>
                   /\ n.cancelledAt = now
                   /\ n.cancellationReason =
                         IF last'.notes = "" THEN o.cancellationReason
                         ELSE IF last'.notes = " " THEN "" ELSE last'.notes
             /\ st \notin {"delivered", "cancelled"} =>
                   /\ n.paymentStatus = o.paymentStatus
                   /\ n.deliveredAt = o.deliveredAt
                   /\ n.cancelledAt = o.cancelledAt]_vars

\* C25, witness: an order delivered on one day has been cancelled with notes on a
\* later day
C25_Witness ==
    /\ Answered("updateStatus", "ok")
    /\ last.notes = "late"
    /\ orders[last.orderId].status = "cancelled"
    /\ orders[last.orderId].cancellationReason = "late"
    /\ orders[last.orderId].cancelledAt = now
    /\ orders[last.orderId].deliveredAt # NoDate
    /\ orders[last.orderId].deliveredAt < now
    /\ orders[last.orderId].paymentStatus = "paid"

-----------------------------------------------------------------------------
\* email verification: verifyEmail, resendOTP and the welcome email
\* (here the clock counts minutes)

\* generateOTP draws six digits; the model follows two outcomes
Otps == {"111111", "222222"}

\* the minutes an OTP stays valid
OtpMinutes == 10

\* the email field of a request body: registered addresses, one of them as typed
\* with a blank and in capitals, an unknown address, and none
EmailsGiven == Users \cup {" U1", "u9", ""}

\* email.toLowerCase().trim()
NormalizeEmail(email) == IF email = " U1" THEN "u1" ELSE email

NoMail == [pending |-> 0, sent |-> 0, failed |-> 0]

\* no auth request is in flight
AuthQuiet == \A r \in Slots : auth[r].pc = "idle"

AuthContinue(r, rec) ==
    /\ auth' = [auth EXCEPT ![r] = rec]
    /\ last' = NoResponse

AuthFinish(r, o, response) ==
    /\ auth' = [auth EXCEPT ![r] = AuthIdle]
    /\ last' = Response(o, auth[r].email, 0, response)

AuthReject(o, email, response) ==
    /\ auth' = auth
    /\ last' = Response(o, email, 0, response)

\* user.otpExpires < Date.now(); a missing date compares false
otpExpired(user) == user.otpExpires # NoDate /\ user.otpExpires < now

\* variant that verifies the user but leaves the OTP in place
verifyUserKeepingOtp(user) ==
    [user EXCEPT !.isEmailVerified = TRUE, !.status = "active"]

\* the four assignments of verifyEmail before its save
verifyUser(user) ==
    [user EXCEPT !.isEmailVerified = TRUE, !.status = "active",
                 !.emailVerificationOTP = NoOtp, !.otpExpires = NoDate]

\* verifyEmail up to its save: the body's fields, User.findOne and the four checks
verifyEmailFind(r, email, otp) ==
    /\ auth[r].pc = "idle"
    /\ Arrive
    /\ LET e == NormalizeEmail(email)
       IN IF email = "" \/ otp = ""
          THEN AuthReject("verifyEmail", email, "Required")
          ELSE IF e \notin DOMAIN users
          THEN AuthReject("verifyEmail", email, "NotFound")
          ELSE IF users[e].isEmailVerified
          THEN AuthReject("verifyEmail", e, "AlreadyVerified")
          ELSE IF users[e].emailVerificationOTP # otp
          THEN AuthReject("verifyEmail", e, "InvalidOTP")
          ELSE IF otpExpired(users[e])
          THEN AuthReject("verifyEmail", e, "Expired")
          ELSE AuthContinue(r, [pc |-> "ve_save", email |-> e, otp |-> otp])
    /\ UNCHANGED <<products, carts, orders, req, now, users, mails, limits>>

\* user.save() lands; sendWelcomeEmail is started and not awaited; 200 is sent
verifyEmailSave(r) ==
    /\ auth[r].pc = "ve_save"
    /\ LET e == auth[r].email
       IN /\ users' = [users EXCEPT ![e] = verifyUser(@)]
          /\ mails' = [mails EXCEPT ![e].pending = @ + 1]
    /\ AuthFinish(r, "verifyEmail", "ok")
    /\ UNCHANGED <<products, carts, orders, req, nreq, now, limits>>

\* transporter.sendMail resolves
welcomeEmailSent(u) ==
    /\ mails[u].pending > 0
    /\ mails' = [mails EXCEPT ![u].pending = @ - 1, ![u].sent = @ + 1]
    /\ last' = NoResponse
    /\ UNCHANGED <<products, carts, orders, req, nreq, now, users, auth, limits>>

\* transporter.sendMail rejects: sendWelcomeEmail catches and logs
welcomeEmailFails(u) ==
    /\ mails[u].pending > 0
    /\ mails' = [mails EXCEPT ![u].pending = @ - 1, ![u].failed = @ + 1]
    /\ last' = NoResponse
    /\ UNCHANGED <<products, carts, orders, req, nreq, now, users, auth, limits>>

\* resendOTP up to its save
resendOTPFind(r, email) ==
    /\ auth[r].pc = "idle"
    /\ Arrive
    /\ LET e == NormalizeEmail(email)
       IN IF email = ""
          THEN AuthReject("resendOTP", email, "Required")
          ELSE IF e \notin DOMAIN users
          THEN AuthReject("resendOTP", email, "NotFound")
          ELSE IF users[e].isEmailVerified
          THEN AuthReject("resendOTP", e, "AlreadyVerified")
          ELSE AuthContinue(r, [pc |-> "ro_save", email |-> e, otp |-> NoOtp])
    /\ UNCHANGED <<products, carts, orders, req, now, users, mails, limits>>

\* the new OTP and its expiry are saved; sendOTPEmail is awaited next
resendOTPSave(r) ==
    /\ auth[r].pc = "ro_save"
    /\ \E otp \in Otps :
          /\ users' = [users EXCEPT ![auth[r].email].emailVerificationOTP = otp,
                                    ![auth[r].email].otpExpires = now + OtpMinutes]
          /\ AuthContinue(r, [auth[r] EXCEPT !.pc = "ro_mail", !.otp = otp])
    /\ UNCHANGED <<products, carts, orders, req, nreq, now, mails, limits>>

\* sendOTPEmail resolves or throws
resendOTPMail(r) ==
    /\ auth[r].pc = "ro_mail"
    /\ \E response \in {"ok", "EmailFailed"} : AuthFinish(r, "resendOTP", response)
    /\ UNCHANGED <<products, carts, orders, req, nreq, now, users, mails, limits>>

VerifyEmail ==
    \/ \E r \in Slots, email \in EmailsGiven, otp \in Otps \cup {""} :
          AuthQuiet /\ verifyEmailFind(r, email, otp)
    \/ \E r \in Slots : verifyEmailSave(r)

ResendOTP ==
    \/ \E r \in Slots, email \in EmailsGiven : AuthQuiet /\ resendOTPFind(r, email)
    \/ \E r \in Slots : resendOTPSave(r)
    \/ \E r \in Slots : resendOTPMail(r)

WelcomeEmail ==
    \/ \E u \in Users : welcomeEmailSent(u)
    \/ \E u \in Users : welcomeEmailFails(u)

\* u1 has registered eight minutes ago and holds an OTP with two minutes left;
\* u2 is verified
InitVerify ==
    /\ products = [p \in Products |-> [quantity |-> InitQuantity(p), status |-> "active",
                                       price |-> InitPrice(p)]]
    /\ carts = [u \in Users |-> [exists |-> FALSE, items |-> <<>>]]
    /\ orders = <<>>
    /\ req = [r \in Slots |-> Idle]
    /\ last = NoResponse
    /\ nreq = 0
    /\ now = 0
    /\ users = [u \in Users |->
                  IF u = "u1"
                  THEN [isEmailVerified |-> FALSE, status |-> "pending",
                        emailVerificationOTP |-> "111111", otpExpires |-> 2]
                  ELSE [isEmailVerified |-> TRUE, status |-> "active",
                        emailVerificationOTP |-> NoOtp, otpExpires |-> NoDate]]
    /\ auth = [r \in Slots |-> AuthIdle]
    /\ mails = [u \in Users |-> NoMail]
    /\ rateLimitStore = <<>>
    /\ admitted = [l \in Limiters |-> [k \in Ips |-> <<>>]]

\* auth requests one at a time; the welcome email resolves whenever it does
NextVerify == VerifyEmail \/ ResendOTP \/ WelcomeEmail \/ Tick

SpecVerify == InitVerify /\ [][NextVerify]_vars

VerifiedIn(us, u) ==
    /\ us[u].isEmailVerified
    /\ us[u].status = "active"
    /\ us[u].emailVerificationOTP = NoOtp
    /\ us[u].otpExpires = NoDate

Verified(u) == VerifiedIn(users, u)

\* C26: the step in which verifyEmail saves leaves the user verified, active and
\* without OTP and answers success while the welcome email is still on its way;
\* a welcome email that is sent or fails changes no user and answers nothing; and
\* a user who is verified, active and without OTP stays so in every later step.
C26_VerifiedWhateverTheEmail ==
    [][/\ \A r \in Slots :
             (auth[r].pc = "ve_save" /\ auth'[r].pc # "ve_save") =>
                 /\ VerifiedIn(users', auth[r].email)
                 /\ last'.op = "verifyEmail" /\ last'.resp = "ok"
                 /\ mails'[auth[r].email].pending = mails[auth[r].email].pending + 1
       /\ \A u \in Users :
             mails'[u].pending < mails[u].pending =>
                 users' = users /\ last'.resp = "none"
       /\ \A u \in Users : Verified(u) => VerifiedIn(users', u)]_vars

\* C26, witness: u1's welcome email has failed after the OTP was accepted, and u1
\* is verified, active and without OTP
C26_Witness ==
    /\ mails["u1"].failed > 0
    /\ Verified("u1")
    /\ last.resp = "none"

-----------------------------------------------------------------------------
\* the four order requests, one at a time, with no admin edit of the catalog

NextLedger ==
    \/ CreateOrderOn(OneAtATime)
    \/ CancelOrderOn(OneAtATime)
    \/ ProcessPaymentOn(OneAtATime)
    \/ ProcessRefundOn(OneAtATime)
    \/ Tick

SpecLedger == InitLifecycle /\ [][NextLedger]_vars

\* C27: whenever no request is in flight, for every product the quantity on hand
\* plus the units in the orders that are not cancelled is the initial quantity.
C27_StockLedger ==
    Quiet => \A p \in Products :
                products[p].quantity + UnitsHeld(p) = InitQuantity(p)

\* C27, witness: an order has been cancelled and its units are back in stock, and
\* a later order holds the last unit of p1
C27_Witness ==
    /\ Quiet
    /\ products["p1"].quantity = 0
    /\ \E i, j \in DOMAIN orders :
          /\ orders[i].status = "cancelled"
          /\ LineUnits(orders[i].items, "p1", 1) = 1
          /\ orders[j].status = "pending"
          /\ LineUnits(orders[j].items, "p1", 1) = 1

-----------------------------------------------------------------------------
\* C28: every order whose status is cancelled has paymentStatus refunded, and no
\* step changes the paymentStatus of an order that is cancelled.
C28_CancelledIsRefunded ==
    [][\A i \in DOMAIN orders' :
          /\ orders'[i].status = "cancelled" => orders'[i].paymentStatus = "refunded"
          /\ (i \in DOMAIN orders /\ orders[i].status = "cancelled") =>
                orders'[i].paymentStatus = orders[i].paymentStatus]_vars

\* C28, witness: an order that was never paid is cancelled and a later payment
\* request for it has been refused
C28_Witness ==
    /\ Answered("processPayment", "OrderCancelled")
    /\ orders[last.orderId].status = "cancelled"
    /\ orders[last.orderId].paymentStatus = "refunded"

-----------------------------------------------------------------------------
\* the reads of one order, and the requests that name an order

\* populate({path: 'items.product', select: 'name price images category brand'})
PopulateSelected(items) ==
    [i \in DOMAIN items |->
        [items[i] EXCEPT !.product = [id |-> items[i].product,
                                      price |-> products[items[i].product].price]]]

\* getOrder: Order.findOne({_id, user}).populate(...) and the answer
getOrder(u, id) ==
    /\ Arrive
    /\ IF ~FindOrder(id, u)
       THEN last' = Response("getOrder", u, id, "NotFound")
       ELSE last' = [Response("getOrder", u, id, "ok") EXCEPT !.view =
                        <<[orders[id] EXCEPT !.items = PopulateSelected(@)]>>]
    /\ UNCHANGED <<products, carts, orders, req, now, aside>>

\* getPaymentStatus: Order.findOne({_id, user}).select(...) and the answer;
\* paymentTransactionId is no path of the schema, so transactionId is undefined
getPaymentStatus(u, id) ==
    /\ Arrive
    /\ IF ~FindOrder(id, u)
       THEN last' = Response("getPaymentStatus", u, id, "NotFound")
       ELSE last' = [Response("getPaymentStatus", u, id, "ok") EXCEPT
                        !.view = <<[orderId |-> id,
                                    status |-> orders[id].paymentStatus,
                                    method |-> orders[id].paymentMethod,
                                    amount |-> orders[id].total,
                                    orderStatus |-> orders[id].status]>>]
    /\ UNCHANGED <<products, carts, orders, req, now, aside>>

GetOrder == \E u \in Users, id \in DOMAIN orders : getOrder(u, id)

GetPaymentStatus == \E u \in Users, id \in DOMAIN orders : getPaymentStatus(u, id)

NextOwner ==
    \/ CreateOrder
    \/ GetOrder
    \/ GetPaymentStatus
    \/ CancelOrder
    \/ ProcessPayment
    \/ ProcessRefund

SpecOwner == InitLifecycle /\ [][NextOwner]_vars

\* the requests that name an order
OrderRequests ==
    {"getOrder", "cancelOrder", "processPayment", "getPaymentStatus", "processRefund"}

\* C29: a request of a user for an order of another user is answered not-found by
\* its first step, which changes no order and no product; none is taken further;
\* and a step that changes an order's status or paymentStatus is a step of a
\* request of the order's owner for that order.
C29_OwnerOnly ==
    [][/\ (/\ last'.op \in OrderRequests
           /\ last'.orderId \in DOMAIN orders
           /\ orders[last'.orderId].user # last'.user) =>
              /\ last'.resp = "NotFound"
              /\ orders' = orders
              /\ products' = products
              /\ req' = req
       /\ \A r \in Slots :
             (req[r].pc = "idle" /\ req'[r].pc # "idle"
                  /\ req'[r].op \in OrderRequests) =>
                 /\ req'[r].orderId \in DOMAIN orders
                 /\ orders[req'[r].orderId].user = req'[r].user
       /\ \A id \in DOMAIN orders :
             (\/ orders'[id].status # orders[id].status
              \/ orders'[id].paymentStatus # orders[id].paymentStatus) =>
                 \E r \in Slots :
                    /\ req[r].pc # "idle"
                    /\ req'[r] # req[r]
                    /\ req[r].orderId = id
                    /\ req[r].user = orders[id].user]_vars

\* C29, witness: u2 has asked to cancel an order of u1 and got not-found
C29_Witness ==
    /\ Answered("cancelOrder", "NotFound")
    /\ last.user = "u2"
    /\ last.orderId \in DOMAIN orders
    /\ orders[last.orderId].user = "u1"

-----------------------------------------------------------------------------
\* rate limiting: the limiters made by createRateLimit share one store, keyed by
\* the client's address only (here the clock counts milliseconds)

\* the window both exported limiters use, and their maxima, scaled down
WindowMs == 2
AuthMax == 1
ApiMax == 2

\* the requests the limiters are followed for
MaxHits == 3

windowMsOf(l) == WindowMs

maxOf(l) == IF l = "authRateLimit" THEN AuthMax ELSE ApiMax

\* requests.filter(time => time > windowStart)
RECURSIVE FilterAfter(_, _, _)
FilterAfter(requests, windowStart, i) ==
    IF i > Len(requests) THEN <<>>
    ELSE (IF requests[i] > windowStart THEN <<requests[i]>> ELSE <<>>)
            \o FilterAfter(requests, windowStart, i + 1)

\* rateLimitStore.set(key, value)
MapSet(store, key, value) ==
    [k \in DOMAIN store \cup {key} |-> IF k = key THEN value ELSE store[k]]

\* variant of the limit check that lets one more request through
limitReachedOver(validRequests, max) == Len(validRequests) > max

\* validRequests.length >= max
limitReached(validRequests, max) == Len(validRequests) >= max

\* the middleware createRateLimit(windowMs, max) returns, run for a request of key
rateLimit(l, key) ==
    /\ nreq < MaxHits
    /\ nreq' = nreq + 1
    /\ LET windowStart == now - windowMsOf(l)
       IN IF key \in DOMAIN rateLimitStore
          THEN LET validRequests == FilterAfter(rateLimitStore[key], windowStart, 1)
               IN IF limitReached(validRequests, maxOf(l))
                  THEN /\ rateLimitStore' = MapSet(rateLimitStore, key, validRequests)
                       /\ admitted' = admitted
                       /\ last' = Response(l, key, 0, "429")
                  ELSE /\ rateLimitStore' =
                              MapSet(rateLimitStore, key, Append(validRequests, now))
                       /\ admitted' = [admitted EXCEPT ![l][key] = Append(@, now)]
                       /\ last' = Response(l, key, 0, "next")
          ELSE /\ rateLimitStore' = MapSet(rateLimitStore, key, <<now>>)
               /\ admitted' = [admitted EXCEPT ![l][key] = Append(@, now)]
               /\ last' = Response(l, key, 0, "next")
    /\ UNCHANGED <<products, carts, orders, req, now, users, auth, mails>>

RateLimit == \E l \in Limiters, key \in Ips : rateLimit(l, key)

SpecLimit == Init /\ [][RateLimit \/ Tick]_vars

\* the times of requests that lie in the window of length w ending at t
InWindow(requests, t, w) == {i \in DOMAIN requests : requests[i] > t - w /\ requests[i] <= t}

\* the recorded requests of key at the time of a request
Recorded(store, key) == IF key \in DOMAIN store THEN store[key] ELSE <<>>

\* C30: for each limiter and each client key, in every window of windowMs (open at
\* its start) the limiter has let at most max requests through; a request is
\* answered 429 exactly when max or more recorded requests of the key lie inside
\* the window that ends now, and then it is not recorded and the key's list is
\* the recorded requests inside the window; otherwise it is let through and
\* recorded.
C30_RateLimit ==
    [][/\ \A l \in Limiters, key \in Ips, t \in 0 .. MaxDays :
             Cardinality(InWindow(admitted'[l][key], t, windowMsOf(l))) <= maxOf(l)
       /\ last'.op \in Limiters =>
             LET l == last'.op
                 key == last'.user
                 recorded == Recorded(rateLimitStore, key)
                 inside == InWindow(recorded, now, windowMsOf(l))
                 valid == SelectSeq(recorded, LAMBDA time : time > now - windowMsOf(l))
             IN /\ last'.resp \in {"429", "next"}
                /\ last'.resp = "429" <=> Cardinality(inside) >= maxOf(l)
                /\ last'.resp = "429" =>
                      rateLimitStore'[key] = valid /\ admitted' = admitted
                /\ last'.resp = "next" =>
                      /\ rateLimitStore'[key] = Append(valid, now)
                      /\ admitted'[l][key] = Append(admitted[l][key], now)]_vars

\* C30, witness: apiRateLimit has let ip1 through max times and, once those
\* requests have left the window, one more time
C30_Witness ==
    /\ Answered("apiRateLimit", "next")
    /\ last.user = "ip1"
    /\ Len(admitted["apiRateLimit"]["ip1"]) = ApiMax + 1
    /\ rateLimitStore["ip1"] = <<now>>

====
